---- MODULE Spec2Model ----
(***************************************************************************)
(* Model of the strava-leaderboard-enhanced content script:                *)
(*   - DOMUtils request building (filter parameters, GET URL, POST form),  *)
(*   - PageLoader.loadAllPages and its cancel handler, as interleaved      *)
(*     event-loop tasks of one PageLoader instance.                        *)
(* Objects with string keys (JS objects, URLSearchParams, FormData) are    *)
(* sequences of <<name, value>> pairs in insertion order.                  *)
(***************************************************************************)
EXTENDS Integers, Sequences, FiniteSets, TLC

\* ------------------------------------------------------------------ bounds
MaxPages == 3      \* largest page count the host page reports
MaxCalls == 2      \* loadAllPages invocations per PageLoader instance

Runs == 1..MaxCalls

\* ------------------------------------------------------- JS object helpers
Null == "<null>"          \* null / undefined where a string is expected

\* nullable objects: None, or Some(x) holding the object x
None == <<>>
Some(x) == <<x>>
Val(o) == o[1]

Truthy(v) == v # Null /\ v # ""

HasKey(obj, k) == \E i \in 1..Len(obj) : obj[i][1] = k

\* obj[k], or Null when the key is absent (first occurrence for lists that
\* may repeat a key: URLSearchParams.get)
GetKey(obj, k) ==
    IF HasKey(obj, k)
    THEN obj[CHOOSE i \in 1..Len(obj) :
                 obj[i][1] = k /\ \A j \in 1..(i-1) : obj[j][1] # k][2]
    ELSE Null

\* obj[k] = v : keeps the position of an existing key, else appends
SetKey(obj, k, v) ==
    IF HasKey(obj, k)
    THEN [i \in 1..Len(obj) |-> IF obj[i][1] = k THEN <<k, v>> ELSE obj[i]]
    ELSE Append(obj, <<k, v>>)

\* { ...a, ...b }
RECURSIVE Spread(_, _)
Spread(a, b) ==
    IF b = <<>> THEN a
    ELSE Spread(SetKey(a, Head(b)[1], Head(b)[2]), Tail(b))

Keys(obj) == {obj[i][1] : i \in 1..Len(obj)}

\* ---------------------------------------------------------------- DOMUtils
\* allow-list of parseUrlParams
urlAllowedParams == {"club_id", "filter", "per_page", "partial"}

\* allow-list of loadPageDataGET (allowedParams and importantParams hold the
\* same seven names)
allowedParams ==
    {"club_id", "filter", "per_page", "partial",
     "date_range", "age_group", "weight_class"}

importantParams ==
    <<"club_id", "per_page", "filter", "partial",
      "date_range", "age_group", "weight_class">>

\* searchParams.forEach: later occurrences of a key overwrite earlier ones
RECURSIVE parseUrlParamsFrom(_, _)
parseUrlParamsFrom(params, query) ==
    IF query = <<>> THEN params
    ELSE LET k == Head(query)[1]
             v == Head(query)[2]
         IN parseUrlParamsFrom(
                IF k # "page" /\ k \in urlAllowedParams
                THEN SetKey(params, k, v) ELSE params,
                Tail(query))

parseUrlParams(query) == parseUrlParamsFrom(<<>>, query)

\* pathname as the sequence of its non-empty parts
PathIncludesLeaderboard(path) == \E i \in 1..Len(path) : path[i] = "leaderboard"

DigitParts == {"123"}

\* pathname.match(/\/segments\/(\d+)/)
SegmentIdOf(path) ==
    IF \E i \in 1..(Len(path) - 1) : path[i] = "segments" /\ path[i+1] \in DigitParts
    THEN path[1 + CHOOSE i \in 1..(Len(path) - 1) :
                  /\ path[i] = "segments" /\ path[i+1] \in DigitParts
                  /\ \A j \in 1..(i-1) :
                        ~(path[j] = "segments" /\ path[j+1] \in DigitParts)]
    ELSE Null

\* text.includes(needle) for the filter texts of the model
TextIncludes(text, needle) ==
    <<text, needle>> \in
        { <<"my results", "my">>, <<"following", "follow">>,
          <<"current year", "current">>, <<"overall", "overall">>,
          <<"jp:kekka", "jp:kekka">>, <<"jp:follow", "jp:follow">>,
          <<"jp:kotoshi", "jp:kotoshi">>, <<"jp:zenkikan", "jp:zenkikan">> }

Or2(a, b) == IF Truthy(a) THEN a ELSE b

detectCurrentFilter(d) ==
    IF Truthy(d.activeFiltersText)
    THEN Some([filterType |-> "active-filters", filterValue |-> d.activeFiltersText])
    ELSE IF d.activeButton # None
    THEN LET b == Val(d.activeButton)
         IN Some([filterType  |-> Or2(b.dataFilter, "text"),
                  filterValue |-> Or2(b.dataFilter, Or2(b.text, Or2(b.href, "")))])
    ELSE None

\* first active element (in selector order) that has an href
RECURSIVE FirstActiveHref(_)
FirstActiveHref(elems) ==
    IF elems = <<>> THEN None
    ELSE IF Head(elems) # None THEN Head(elems)
    ELSE FirstActiveHref(Tail(elems))

\* first .filter-link whose text equals the detected filter value
RECURSIVE FirstMatchingFilterLink(_, _)
FirstMatchingFilterLink(links, cur) ==
    IF links = <<>> THEN None
    ELSE IF cur # None /\ Head(links).text = Val(cur).filterValue
    THEN Some(Head(links).query)
    ELSE FirstMatchingFilterLink(Tail(links), cur)

extractFilterParamsFromPage(d) ==
    LET currentParams == parseUrlParams(d.urlQuery)
    IN IF d.pagination /\ d.pageLinks # <<>>
       THEN LET paginationParams == parseUrlParams(d.pageLinks[1])
            IN IF /\ Truthy(GetKey(paginationParams, "filter"))
                  /\ Truthy(GetKey(currentParams, "filter"))
                  /\ GetKey(paginationParams, "filter") # GetKey(currentParams, "filter")
               THEN Some(paginationParams)
               ELSE Some(Spread(currentParams, paginationParams))
       ELSE IF PathIncludesLeaderboard(d.path) /\ currentParams # <<>>
       THEN Some(currentParams)
       ELSE IF FirstActiveHref(d.activeElems) # None
       THEN Some(parseUrlParams(Val(FirstActiveHref(d.activeElems))))
       ELSE IF FirstMatchingFilterLink(d.filterLinks, detectCurrentFilter(d)) # None
       THEN Some(parseUrlParams(
                     Val(FirstMatchingFilterLink(d.filterLinks, detectCurrentFilter(d)))))
       ELSE None

\* hidden / filter / view / segment inputs of the page's forms
RECURSIVE AddFormInputs(_, _)
AddFormInputs(formData, inputs) ==
    IF inputs = <<>> THEN formData
    ELSE LET name  == Head(inputs)[1]
             value == Head(inputs)[2]
         IN AddFormInputs(
                IF Truthy(name) /\ Truthy(value)
                THEN SetKey(formData, name, value) ELSE formData,
                Tail(inputs))

\* map the displayed filter text to a filter value (fallback)
FilterFromText(filterValue) ==
    IF TextIncludes(filterValue, "my") \/ TextIncludes(filterValue, "jp:kekka")
    THEN "my_results"
    ELSE IF TextIncludes(filterValue, "jp:follow") \/ TextIncludes(filterValue, "follow")
    THEN "following"
    ELSE IF TextIncludes(filterValue, "jp:kotoshi") \/ TextIncludes(filterValue, "current")
    THEN "current_year"
    ELSE IF TextIncludes(filterValue, "jp:zenkikan") \/ TextIncludes(filterValue, "overall")
    THEN "overall"
    ELSE Null

\* the formData member of getFilterRequestData()
getFilterRequestData(d) ==
    LET currentFilter == detectCurrentFilter(d)
        filterParams  == extractFilterParamsFromPage(d)
        f1 == IF filterParams # None THEN Spread(<<>>, Val(filterParams)) ELSE <<>>
        f2 == AddFormInputs(f1, d.formInputs)
        \* data-* attributes of the leaderboard container ("data-" stripped)
        f3 == IF d.containerData # None THEN Spread(f2, Val(d.containerData)) ELSE f2
        f4 == IF SegmentIdOf(d.path) # Null
              THEN SetKey(f3, "segment_id", SegmentIdOf(d.path)) ELSE f3
    IN IF /\ currentFilter # None
          /\ Truthy(Val(currentFilter).filterValue)
          /\ filterParams = None
          /\ FilterFromText(Val(currentFilter).filterValue) # Null
       THEN SetKey(f4, "filter", FilterFromText(Val(currentFilter).filterValue))
       ELSE f4

\* the leaderboard endpoint both request builders use
LeaderboardPath(path) ==
    IF PathIncludesLeaderboard(path) THEN path
    ELSE IF Len(path) >= 2 /\ path[1] = "segments"
    THEN <<"segments", path[2], "leaderboard">>
    ELSE path

PageStr(page) == ToString(page)

\* FormData.append for every key of formData with a truthy value
RECURSIVE AppendTruthy(_, _)
AppendTruthy(body, formData) ==
    IF formData = <<>> THEN body
    ELSE AppendTruthy(
             IF Truthy(Head(formData)[2]) THEN Append(body, Head(formData)) ELSE body,
             Tail(formData))

CommonHeaders ==
    << <<"X-Requested-With", "XMLHttpRequest">>,
       <<"Accept", "text/html">>,
       <<"Cache-Control", "no-cache">> >>

buildFilteredPageRequest(d, page) ==
    LET formData == AppendTruthy(<< <<"page", PageStr(page)>> >>, getFilterRequestData(d))
    IN [method  |-> "POST",
        page    |-> page,
        path    |-> LeaderboardPath(d.path),
        params  |-> IF Truthy(d.csrfToken)
                    THEN Append(formData, <<"authenticity_token", d.csrfToken>>)
                    ELSE formData,
        headers |-> IF Truthy(d.csrfToken)
                    THEN Append(CommonHeaders, <<"X-CSRF-Token", d.csrfToken>>)
                    ELSE CommonHeaders]

\* searchParams.set for the allow-listed, truthy, non-page keys of formData
RECURSIVE SetAllowed(_, _)
SetAllowed(search, formData) ==
    IF formData = <<>> THEN search
    ELSE LET key   == Head(formData)[1]
             value == Head(formData)[2]
         IN SetAllowed(
                IF Truthy(value) /\ key # "page" /\ key \in allowedParams
                THEN SetKey(search, key, value) ELSE search,
                Tail(formData))

\* parameters of the current URL copied when the request lacks them
RECURSIVE CopyImportant(_, _, _)
CopyImportant(search, names, urlQuery) ==
    IF names = <<>> THEN search
    ELSE LET value == GetKey(urlQuery, Head(names))
         IN CopyImportant(
                IF Truthy(value) /\ ~HasKey(search, Head(names))
                THEN SetKey(search, Head(names), value) ELSE search,
                Tail(names), urlQuery)

\* the request loadPageDataGET hands to fetch
buildGetRequest(d, page) ==
    LET s0 == << <<"page", PageStr(page)>>, <<"partial", "true">> >>
        s1 == SetAllowed(s0, getFilterRequestData(d))
    IN [method  |-> "GET",
        page    |-> page,
        path    |-> LeaderboardPath(d.path),
        params  |-> CopyImportant(s1, importantParams, d.urlQuery),
        headers |-> CommonHeaders]

\* ------------------------------------------------------------ the host page
\* the selector candidates of getTotalPages, in the order it tries them
paginationSelectors ==
    <<".pagination", "nav[role=navigation]", "ul[role=navigation]",
      ".pagination-wrapper", ".leaderboard-pagination", "nav ul">>

\* the texts of the th elements the host renders
HeaderTexts ==
    << <<"R", "a", "n", "k">>, <<"N", "a", "m", "e">>, <<"D", "a", "t", "e">>,
       <<"T", "i", "m", "e">> >>

\* what the content script reads from the document and the location
MkDom(path, urlQuery, pagination, pageLinks, formInputs, containerData, activeFiltersText, csrfToken) ==
    [path              |-> path,
     urlQuery          |-> urlQuery,
     pagination        |-> pagination,        \* a .pagination element exists
     pageLinks         |-> pageLinks,         \* its a[href*="leaderboard"] queries
     formInputs        |-> formInputs,
     containerData     |-> containerData,
     activeFiltersText |-> activeFiltersText,
     activeButton      |-> None,
     activeElems       |-> <<>>,
     filterLinks       |-> <<>>,
     csrfToken         |-> csrfToken,
     pagers            |-> [i \in 1..Len(paginationSelectors) |-> None],
     docPageLinks      |-> <<>>,
     table             |-> "full",            \* .table-leaderboard: "absent",
                                              \* "bodiless" or "full"
     headerTexts       |-> HeaderTexts]       \* textContent of its th elements

\* a filtered segment leaderboard as the host renders it
DomFiltered ==
    MkDom(<<"segments", "123", "leaderboard">>,
          << <<"filter", "overall">> >>, TRUE,
          << << <<"page", "2">>, <<"filter", "overall">>,
                <<"date_range", "this_year">> >> >>,
          <<>>, None, Null, "tok")

\* a segment page with a form holding an unrelated hidden input, no CSRF tag
DomHiddenInput ==
    MkDom(<<"segments", "123">>,
          <<>>, TRUE,
          << << <<"page", "2">>, <<"per_page", "25">> >> >>,
          << <<"athlete_id", "42">> >>, None, Null, Null)

\* no .pagination element; filter known from the active-filters text and
\* the leaderboard container carrying a data attribute
DomNoPagination ==
    MkDom(<<"clubs", "7">>,
          << <<"club_id", "7">> >>, FALSE, <<>>,
          <<>>, Some(<< <<"react-class", "Leaderboard">> >>), "following", "tok")

\* a club leaderboard: nothing on the page but allow-listed parameters
DomClub ==
    MkDom(<<"clubs", "7", "leaderboard">>,
          << <<"club_id", "7">> >>, TRUE,
          << << <<"page", "2">>, <<"club_id", "7">>, <<"per_page", "25">> >> >>,
          <<>>, None, Null, "tok")

\* a club leaderboard whose form keeps the shown page in a hidden input
DomPageInput ==
    MkDom(<<"clubs", "7", "leaderboard">>,
          << <<"club_id", "7">> >>, TRUE,
          << << <<"page", "2">>, <<"club_id", "7">> >> >>,
          << <<"page", "1">> >>, None, Null, "tok")

\* the pages 1..n as a pagination block lists them
PageNumbers(n) == [k \in 1..n |-> k]

\* the host page d paginated over n pages: its block is the .pagination
\* element when d has one, else a nav[role=navigation] element
HostPage(d, n) ==
    [d EXCEPT !.pagers =
                 [i \in 1..Len(paginationSelectors) |->
                     IF i = (IF d.pagination THEN 1 ELSE 2)
                     THEN Some([el    |-> paginationSelectors[i],
                                links |-> PageNumbers(n),
                                text  |-> PageNumbers(n)])
                     ELSE None],
              !.docPageLinks = PageNumbers(n)]

\* if (pageNum > maxPage) maxPage = pageNum, over the page= links
RECURSIVE MaxOfLinks(_, _)
MaxOfLinks(maxPage, links) ==
    IF links = <<>> THEN maxPage
    ELSE MaxOfLinks(IF Head(links) > maxPage THEN Head(links) ELSE maxPage,
                    Tail(links))

\* numbers of 1000 and more in the pagination text are no page numbers
TextPageLimit == 1000

\* if (num > maxPage && num < 1000) maxPage = num, over the numbers of the text
RECURSIVE MaxOfText(_, _)
MaxOfText(maxPage, nums) ==
    IF nums = <<>> THEN maxPage
    ELSE MaxOfText(IF Head(nums) > maxPage /\ Head(nums) < TextPageLimit
                   THEN Head(nums) ELSE maxPage,
                   Tail(nums))

\* the loop over the selector candidates from candidate i on: the page count
\* and the element it was found in (None when no candidate gave one)
RECURSIVE ScanPagers(_, _, _)
ScanPagers(d, i, maxPage) ==
    IF i > Len(paginationSelectors) THEN [maxPage |-> maxPage, el |-> None]
    ELSE IF d.pagers[i] = None THEN ScanPagers(d, i + 1, maxPage)
    ELSE LET pg == Val(d.pagers[i])
             m  == MaxOfText(MaxOfLinks(maxPage, pg.links), pg.text)
         IN IF m > 1 THEN [maxPage |-> m, el |-> Some(pg.el)]
            ELSE ScanPagers(d, i + 1, m)

getTotalPages(d) ==
    LET found == ScanPagers(d, 1, 1)
    IN IF found.maxPage = 1 THEN MaxOfLinks(1, d.docPageLinks)
       ELSE found.maxPage

\* pages the request-building checks start on
Doms == {DomFiltered, DomHiddenInput, DomNoPagination, DomClub, DomPageInput}

\* ------------------------------------------------------------- table rows
\* a <td> as the host renders it: its text as a sequence of characters and
\* whether it holds an avatar-like marker (.avatar, img, ...)
Cell(text, avatar) == [text |-> text, avatar |-> avatar]

\* stand-ins for the characters of the date pattern /(\d{4})年(\d{1,2})月(\d{1,2})日/
Nen == "nen"
Gatsu == "gatsu"
Nichi == "nichi"

\* stand-in for the heart of the heart-rate pattern
Heart == "heart"

\* stand-in for the hour character of the fallback of the climbing speed
Ji == "ji"

\* the rows the host renders, by name: rank, name, date and time cells
HostCells(src) ==
    CASE src = "short" ->
           <<Cell(<<"9">>, FALSE), Cell(<<"z">>, FALSE)>>
      [] src = "full" ->
           <<Cell(<<"4">>, FALSE), Cell(<<"E", "v">>, FALSE),
             Cell(<<"2", "0", "2", "4", Nen, "2", Gatsu, "1", Nichi>>, FALSE),
             Cell(<<"4", "5", ":", "1", "0">>, FALSE)>>
      [] src = "first" ->
           <<Cell(<<>>, TRUE), Cell(<<"B", "o">>, FALSE),
             Cell(<<"2", "0", "2", "4", Nen, "3", Gatsu, "5", Nichi>>, FALSE),
             Cell(<<"5", "9", ":", "3", "0">>, FALSE)>>
      [] src = "second" ->
           <<Cell(<<"2">>, FALSE), Cell(<<"a", "l">>, FALSE),
             Cell(<<"2", "0", "2", "4", Nen, "1", Gatsu, "2", "0", Nichi>>, FALSE),
             Cell(<<"1", ":", "0", "5", ":", "0", "0">>, FALSE)>>
      [] src = "tenth" ->
           <<Cell(<<"1", "0">>, FALSE), Cell(<<"-">>, FALSE),
             Cell(<<"2", "0", "2", "3", Nen, "1", "2", Gatsu, "3", "1", Nichi>>, FALSE),
             Cell(<<>>, FALSE)>>
      [] src = "norank" ->
           <<Cell(<<>>, FALSE), Cell(<<"d", "a">>, FALSE),
             Cell(<<"-">>, FALSE),
             Cell(<<"1", ",", "2", "0", "0">>, FALSE)>>
      [] src = "three" ->
           <<Cell(<<"6">>, FALSE), Cell(<<"B", "o">>, FALSE),
             Cell(<<"7", ":", "0", "5">>, FALSE)>>
      [] src = "seventh" ->
           <<Cell(<<"7">>, TRUE), Cell(<<"E", "v">>, FALSE),
             Cell(<<"2", "0", "2", "4", Nen, "2", Gatsu, "1", Nichi>>, FALSE),
             Cell(<<"5", "9", ":", "3", "0">>, FALSE)>>
      [] src = "metrics" ->
           <<Cell(<<"3">>, FALSE), Cell(<<"a", "l">>, FALSE),
             Cell(<<"2", "0", "2", "4", Nen, "3", Gatsu, "5", Nichi>>, FALSE),
             Cell(<<"1", ",", "2", "3", "4", ".", "5", " ", "k", "m", "/", "h">>, FALSE),
             Cell(<<"1", "8", "5", " ", "b", "p", "m">>, FALSE),
             Cell(<<"2", "5", "0", "W">>, FALSE),
             Cell(<<"1", "2", ":", "3", "4">>, FALSE)>>
      [] src = "comma" ->
           <<Cell(<<"1">>, FALSE), Cell(<<"D", "o", ",", " ", "J">>, FALSE),
             Cell(<<"2", "0", "2", "4", Nen, "2", Gatsu, "1", Nichi>>, FALSE),
             Cell(<<"4", "5", ":", "1", "0">>, FALSE)>>
      [] src = "quote" ->
           <<Cell(<<"2">>, FALSE), Cell(<<"a", "\"", "b">>, FALSE),
             Cell(<<"2", "0", "2", "4", Nen, "2", Gatsu, "1", Nichi>>, FALSE),
             Cell(<<"4", "5", ":", "1", "0">>, FALSE)>>
      [] src = "lines" ->
           <<Cell(<<"3">>, FALSE), Cell(<<"a", "\n", "b">>, FALSE),
             Cell(<<"2", "0", "2", "4", Nen, "2", Gatsu, "1", Nichi>>, FALSE),
             Cell(<<"4", "5", ":", "1", "0">>, FALSE)>>
      [] src = "late" ->
           <<Cell(<<"5">>, FALSE), Cell(<<"d", "a">>, FALSE),
             Cell(<<"2", "0", "2", "4", Nen, "3", Gatsu, "5", Nichi>>, FALSE),
             Cell(<<"3", "0", ".", "5", " ", "k", "m", "/", "h">>, FALSE),
             Cell(<<"-">>, FALSE),
             Cell(<<"9", "8", Heart>>, FALSE),
             Cell(<<"2", "5", "0", "W">>, FALSE),
             Cell(<<"2", ":", "0", "3">>, FALSE)>>
      [] src = "zeroth" ->
           <<Cell(<<"0">>, FALSE), Cell(<<"E", "v">>, FALSE),
             Cell(<<"2", "0", "2", "4", Nen, "2", Gatsu, "1", Nichi>>, FALSE),
             Cell(<<"4", "5", ":", "1", "0">>, FALSE)>>
      [] src = "minus" ->
           <<Cell(<<"-", "3">>, FALSE), Cell(<<"B", "o">>, FALSE),
             Cell(<<"2", "0", "2", "4", Nen, "3", Gatsu, "5", Nichi>>, FALSE),
             Cell(<<"5", "9", ":", "3", "0">>, FALSE)>>
      [] src = "dash" ->
           <<Cell(<<"-">>, FALSE), Cell(<<"a", "l">>, FALSE),
             Cell(<<"2", "0", "2", "4", Nen, "3", Gatsu, "5", Nichi>>, FALSE),
             Cell(<<"1", "2", ":", "3", "4">>, FALSE)>>
      [] src = "climb" ->
           <<Cell(<<"1">>, FALSE), Cell(<<"E", "v">>, FALSE),
             Cell(<<"-">>, FALSE),
             Cell(<<"8", "5", "0", " ", "m", "/", "m", "i", "n">>, FALSE),
             Cell(<<"-">>, FALSE),
             Cell(<<"-">>, FALSE),
             Cell(<<"1", "2", "0", "0">>, FALSE)>>
      [] src = "bare" ->
           <<Cell(<<"2">>, FALSE), Cell(<<"E", "v">>, FALSE),
             Cell(<<"-">>, FALSE),
             Cell(<<"-">>, FALSE),
             Cell(<<"-">>, FALSE),
             Cell(<<"-">>, FALSE),
             Cell(<<"1", ",", "2", "0", "0">>, FALSE)>>
      [] src = "flat" ->
           <<Cell(<<"3">>, FALSE), Cell(<<"E", "v">>, FALSE),
             Cell(<<"-">>, FALSE),
             Cell(<<"0", " ", "V", "A", "M">>, FALSE),
             Cell(<<"-">>, FALSE),
             Cell(<<"-">>, FALSE),
             Cell(<<"1", "2", "0", "0">>, FALSE)>>
      [] src = "dated" ->
           <<Cell(<<"4">>, FALSE), Cell(<<"E", "v">>, FALSE),
             Cell(<<"-">>, FALSE),
             Cell(<<"-">>, FALSE),
             Cell(<<"-">>, FALSE),
             Cell(<<"-">>, FALSE),
             Cell(<<"2", "0", "2", "4", Nen, "3", Gatsu, "5", Nichi>>, FALSE)>>
      [] src = "far" ->
           <<Cell(<<"5">>, FALSE), Cell(<<"E", "v">>, FALSE),
             Cell(<<"-">>, FALSE),
             Cell(<<"-">>, FALSE),
             Cell(<<"-">>, FALSE),
             Cell(<<"-">>, FALSE),
             Cell(<<"4", "5", " ", "k", "m">>, FALSE)>>
      [] src = "slow" ->
           <<Cell(<<"6">>, FALSE), Cell(<<"E", "v">>, FALSE),
             Cell(<<"-">>, FALSE),
             Cell(<<"-">>, FALSE),
             Cell(<<"-">>, FALSE),
             Cell(<<"-">>, FALSE),
             Cell(<<"1", "0", "0">>, FALSE)>>
      [] src = "hours" ->
           <<Cell(<<"7">>, FALSE), Cell(<<"E", "v">>, FALSE),
             Cell(<<"-">>, FALSE),
             Cell(<<"-">>, FALSE),
             Cell(<<"-">>, FALSE),
             Cell(<<"-">>, FALSE),
             Cell(<<"1", Ji, "間">>, FALSE)>>

\* a <tr> node: the page that rendered it, the host row it shows, how many
\* times cloneNode was applied to get it (a clone is another node than its
\* source), and the indices (from 0) of its cells with display: none
TableRow(page, src) == [page |-> page, src |-> src, copy |-> 0, hidden |-> {}]

\* row.cells
CellsOf(row) == HostCells(row.src)

\* element.cloneNode(true): the copy keeps the inline styles
cloneNode(row) == [row EXCEPT !.copy = @ + 1]

\* a row of two cells (no record) and a row of four
ShortRow(p) == TableRow(p, "short")

FullRow(p) == TableRow(p, "full")

\* the table bodies of page p: no row, a row too short to parse, a full row
BodiesOfPage(p) == { <<>>, <<ShortRow(p)>>, <<FullRow(p)>> }

\* DOMUtils.parseTableRow, as far as the aggregator depends on it: no record
\* for a row of fewer than 3 cells, else a record holding the row
parseTableRow(row, index) ==
    IF Len(CellsOf(row)) < 3 THEN None
    ELSE Some([page |-> row.page, index |-> index, element |-> row])

\* rows.forEach((row, index) => { data = parseTableRow(row, index); if (data) push })
RECURSIVE ParseRowsFrom(_, _)
ParseRowsFrom(rows, i) ==
    IF i > Len(rows) THEN <<>>
    ELSE (IF parseTableRow(rows[i], i - 1) # None
          THEN <<Val(parseTableRow(rows[i], i - 1))>> ELSE <<>>)
         \o ParseRowsFrom(rows, i + 1)

\* a mutation of the loop: it ends at the first row that gives no record
ParseRowsUntilRejected(rows) ==
    LET rejected == { i \in 1..Len(rows) : parseTableRow(rows[i], i - 1) = None }
        first == CHOOSE i \in rejected : \A j \in rejected : i <= j
    IN ParseRowsFrom(IF rejected = {} THEN rows ELSE SubSeq(rows, 1, first - 1), 1)

ParseRows(rows) == ParseRowsFrom(rows, 1)

\* the table body the content script is set up on
InitialBody == <<ShortRow(1), FullRow(1)>>

\* what a fetch can settle with: a rejection or non-2xx status, a 2xx
\* document without a .table-leaderboard tbody, or one with a row in it
Responses(p) ==
    { [ok |-> FALSE, tbody |-> FALSE, rows |-> <<>>],
      [ok |-> TRUE,  tbody |-> FALSE, rows |-> <<>>],
      [ok |-> TRUE,  tbody |-> TRUE,  rows |-> <<ShortRow(p)>>],
      [ok |-> TRUE,  tbody |-> TRUE,  rows |-> <<FullRow(p)>>] }

\* PageLoader.parsePageData: a record per parsed row of the document, its
\* element a clone of the row
ClonedRecords(records) ==
    [i \in 1..Len(records) |-> [records[i] EXCEPT !.element = cloneNode(@)]]

\* PageLoader.parsePageData behind the response.ok check
parsePageData(resp) ==
    IF resp.ok /\ resp.tbody THEN ClonedRecords(ParseRows(resp.rows)) ELSE <<>>

\* ------------------------------------------------------------ TableSorter
\* the header texts of the leaderboard table (th.textContent.trim())
columns == <<"Rank", "Name", "Date", "Time">>

Digits == <<"0", "1", "2", "3", "4", "5", "6", "7", "8", "9">>

IsDigit(c) == \E d \in 1..Len(Digits) : Digits[d] = c

DigitValue(c) == (CHOOSE d \in 1..Len(Digits) : Digits[d] = c) - 1

\* radix of parseInt / parseFloat
Radix == Len(Digits)

\* the number a sequence of digits denotes
RECURSIVE DecimalValue(_)
DecimalValue(chars) ==
    IF chars = <<>> THEN 0
    ELSE DecimalValue(SubSeq(chars, 1, Len(chars) - 1)) * Radix
         + DigitValue(chars[Len(chars)])

\* length of the longest run of digits of chars that starts at position i
RECURSIVE DigitRun(_, _)
DigitRun(chars, i) ==
    IF i > Len(chars) \/ ~IsDigit(chars[i]) THEN 0
    ELSE 1 + DigitRun(chars, i + 1)

IsDigitOrComma(c) == IsDigit(c) \/ c = ","

\* length of the longest run of digits and commas that starts at position i
RECURSIVE DigitOrCommaRun(_, _)
DigitOrCommaRun(chars, i) ==
    IF i > Len(chars) \/ ~IsDigitOrComma(chars[i]) THEN 0
    ELSE 1 + DigitOrCommaRun(chars, i + 1)

RECURSIVE WithoutCommas(_)
WithoutCommas(chars) ==
    IF chars = <<>> THEN <<>>
    ELSE (IF Head(chars) = "," THEN <<>> ELSE <<Head(chars)>>)
         \o WithoutCommas(Tail(chars))

\* fraction digits without trailing zeros
RECURSIVE TrimZeros(_)
TrimZeros(chars) ==
    IF chars # <<>> /\ chars[Len(chars)] = "0"
    THEN TrimZeros(SubSeq(chars, 1, Len(chars) - 1))
    ELSE chars

\* the values getCellValue returns: '' / number / Date / string
BlankValue == [type |-> "blank"]
NumberValue(int, frac) == [type |-> "number", int |-> int, frac |-> TrimZeros(frac)]
DateValue(y, m, d) == [type |-> "date", year |-> y, month |-> m, day |-> d]
StringValue(chars) == [type |-> "string", chars |-> chars]
NaN == [type |-> "NaN"]

\* parseInt(text): the leading digits, NaN without one
parseInt(text) ==
    LET n == DigitRun(text, 1)
        neg == Len(text) >= 1 /\ text[1] = "-"
        m == IF neg THEN DigitRun(text, 2) ELSE 0
    IN IF n > 0 THEN NumberValue(DecimalValue(SubSeq(text, 1, n)), <<>>)
       ELSE IF m > 0 THEN NumberValue(0 - DecimalValue(SubSeq(text, 2, m + 1)), <<>>)
       ELSE NaN

\* text.match(/^[\d,]+\.?\d*/) and parseFloat of the match without commas
NumericMatch(text) ==
    LET n    == DigitOrCommaRun(text, 1)
        dot  == n > 0 /\ Len(text) > n /\ text[n + 1] = "."
        k    == IF dot THEN DigitRun(text, n + 2) ELSE 0
        int  == WithoutCommas(SubSeq(text, 1, n))
        frac == IF dot THEN SubSeq(text, n + 2, n + 1 + k) ELSE <<>>
    IN IF n = 0 THEN None
       ELSE IF int = <<>> /\ frac = <<>> THEN Some(NaN)
       ELSE Some(NumberValue(DecimalValue(int), frac))

\* /(\d{4})年(\d{1,2})月(\d{1,2})日/ matched at position i, the longer month
\* and day first
DateMatchAt(text, i) ==
    LET Fits(ml, dl) ==
            /\ i + 3 + 1 + ml + 1 + dl + 1 - 1 <= Len(text)
            /\ \A j \in i..(i + 3) : IsDigit(text[j])
            /\ text[i + 4] = Nen
            /\ \A j \in (i + 5)..(i + 4 + ml) : IsDigit(text[j])
            /\ text[i + 5 + ml] = Gatsu
            /\ \A j \in (i + 6 + ml)..(i + 5 + ml + dl) : IsDigit(text[j])
            /\ text[i + 6 + ml + dl] = Nichi
        Taken(ml, dl) ==
            DateValue(DecimalValue(SubSeq(text, i, i + 3)),
                      DecimalValue(SubSeq(text, i + 5, i + 4 + ml)),
                      DecimalValue(SubSeq(text, i + 6 + ml, i + 5 + ml + dl)))
    IN IF Fits(2, 2) THEN Some(Taken(2, 2))
       ELSE IF Fits(2, 1) THEN Some(Taken(2, 1))
       ELSE IF Fits(1, 2) THEN Some(Taken(1, 2))
       ELSE IF Fits(1, 1) THEN Some(Taken(1, 1))
       ELSE None

\* the leftmost match of the date pattern
RECURSIVE DateMatch(_, _)
DateMatch(text, i) ==
    IF i > Len(text) THEN None
    ELSE IF DateMatchAt(text, i) # None THEN DateMatchAt(text, i)
    ELSE DateMatch(text, i + 1)

\* text.match(/^(\d{1,2}):(\d{2})(?::(\d{2}))?$/) and
\* hours * 3600 + minutes * 60 + seconds
SecondsPerMinute == 60
SecondsPerHour == 3600

TimeMatch(text) ==
    LET h == DigitRun(text, 1)
        TwoDigitsAt(i) ==
            /\ i + 1 <= Len(text)
            /\ IsDigit(text[i]) /\ IsDigit(text[i + 1])
        short == /\ Len(text) = h + 3
                 /\ text[h + 1] = ":" /\ TwoDigitsAt(h + 2)
        long  == /\ Len(text) = h + 6
                 /\ text[h + 1] = ":" /\ TwoDigitsAt(h + 2)
                 /\ text[h + 4] = ":" /\ TwoDigitsAt(h + 5)
    IN IF h \in {1, 2} /\ (short \/ long)
       THEN Some(NumberValue(
                DecimalValue(SubSeq(text, 1, h)) * SecondsPerHour
                + DecimalValue(SubSeq(text, h + 2, h + 3)) * SecondsPerMinute
                + (IF long THEN DecimalValue(SubSeq(text, h + 5, h + 6)) ELSE 0),
                <<>>))
       ELSE None

\* String.prototype.toLowerCase on the letters of the model
LowerCase(c) ==
    CASE c = "B" -> "b"
      [] c = "E" -> "e"
      [] c = "W" -> "w"
      [] c = "V" -> "v"
      [] c = "A" -> "a"
      [] c = "M" -> "m"
      [] OTHER -> c

toLowerCase(text) == [i \in 1..Len(text) |-> LowerCase(text[i])]

\* position of row in the live table body (0 when it is not in it):
\* row.closest('tbody') and Array.from(rows).indexOf(row) + 1
RECURSIVE PositionIn(_, _, _)
PositionIn(live, row, i) ==
    IF i > Len(live) THEN 0
    ELSE IF live[i] = row THEN i
    ELSE PositionIn(live, row, i + 1)

\* getCellValue on the text of a cell: blank, number, date, duration or
\* lower-case string, in this order
CoerceText(text) ==
    LET numericMatch == NumericMatch(text)
        dateMatch == DateMatch(text, 1)
        timeMatch == TimeMatch(text)
    IN IF text = <<>> \/ text = <<"-">> THEN BlankValue
       ELSE IF numericMatch # None /\ Val(numericMatch) # NaN
       THEN Val(numericMatch)
       ELSE IF dateMatch # None THEN Val(dateMatch)
       ELSE IF timeMatch # None THEN Val(timeMatch)
       ELSE StringValue(toLowerCase(text))

\* getCellValue on the text of a rank cell: if (text && text !== '-')
\* parseInt(text)
RankOfText(text) ==
    IF text # <<>> /\ text # <<"-">> THEN parseInt(text) ELSE NaN

\* the rows the host renders
RowSources == {"short", "full", "first", "second", "tenth", "norank"}

\* the coercions of the texts of the cells of every row, computed once
CoercedCells ==
    [src \in RowSources |->
        [i \in 1..Len(HostCells(src)) |->
            [general |-> CoerceText(HostCells(src)[i].text),
             rank    |-> RankOfText(HostCells(src)[i].text)]]]

\* TableSorter.getCellValue; live is the body of the live table
getCellValue(row, columnIndex, live) ==
    IF columnIndex + 1 > Len(CellsOf(row)) THEN BlankValue
    ELSE
    LET cell == CellsOf(row)[columnIndex + 1]
        coerced == CoercedCells[row.src][columnIndex + 1]
    IN IF columnIndex = 0
       THEN IF cell.avatar THEN NumberValue(1, <<>>)
            ELSE IF coerced.rank # NaN THEN coerced.rank
            ELSE IF PositionIn(live, row, 1) > 0
            THEN NumberValue(PositionIn(live, row, 1), <<>>)
            ELSE coerced.general
       ELSE coerced.general

\* UTF-16 code unit of the characters of the model: < and > compare strings
\* by code units
CodeUnit(c) ==
    CASE c = "(" -> 40 [] c = "," -> 44 [] c = "-" -> 45 [] c = "." -> 46
      [] IsDigit(c) -> 48 + DigitValue(c)
      [] c = ":" -> 58 [] c = "B" -> 66 [] c = "E" -> 69
      [] c = "a" -> 97 [] c = "b" -> 98 [] c = "d" -> 100 [] c = "e" -> 101
      [] c = "l" -> 108 [] c = "o" -> 111 [] c = "v" -> 118 [] c = "z" -> 122
      [] c = Nen -> 24180 [] c = Nichi -> 26085 [] c = Gatsu -> 26376

\* rank of a character under the locale's collation: punctuation, then
\* digits, then letters with the lower case of a letter before its upper case
CollationRank(c) ==
    CASE c = "," -> 1 [] c = "-" -> 2 [] c = "." -> 3 [] c = ":" -> 4
      [] c = "(" -> 5
      [] IsDigit(c) -> 10 + DigitValue(c)
      [] c = "a" -> 20 [] c = "b" -> 22 [] c = "B" -> 23 [] c = "d" -> 24
      [] c = "e" -> 26 [] c = "E" -> 27 [] c = "l" -> 28 [] c = "o" -> 30
      [] c = "v" -> 32 [] c = "z" -> 34
      [] c = Nen -> 40 [] c = Nichi -> 41 [] c = Gatsu -> 42

\* lexicographic a < b of two sequences of numbers
RECURSIVE RanksLess(_, _)
RanksLess(a, b) ==
    IF b = <<>> THEN FALSE
    ELSE IF a = <<>> THEN TRUE
    ELSE IF Head(a) # Head(b) THEN Head(a) < Head(b)
    ELSE RanksLess(Tail(a), Tail(b))

CodeUnits(chars) == [i \in 1..Len(chars) |-> CodeUnit(chars[i])]

CollationRanks(chars) == [i \in 1..Len(chars) |-> CollationRank(chars[i])]

DigitValues(chars) == [i \in 1..Len(chars) |-> DigitValue(chars[i])]

\* the decimal digits of a natural number
RECURSIVE DigitsOf(_)
DigitsOf(n) ==
    IF n < Radix THEN <<Digits[n + 1]>>
    ELSE DigitsOf(n \div Radix) \o <<Digits[(n % Radix) + 1]>>

\* typeof value
typeof(v) ==
    CASE v.type = "number" -> "number"
      [] v.type \in {"string", "blank"} -> "string"
      [] v.type = "date" -> "object"

\* a < b for two values of one type: numbers by magnitude, strings by code
\* units, Dates by their time value
ValueLess(a, b) ==
    CASE a.type = "number" ->
            \/ a.int < b.int
            \/ a.int = b.int /\ RanksLess(DigitValues(a.frac), DigitValues(b.frac))
      [] a.type = "string" -> RanksLess(CodeUnits(a.chars), CodeUnits(b.chars))
      [] a.type = "date" ->
            \/ a.year < b.year
            \/ a.year = b.year /\ a.month < b.month
            \/ a.year = b.year /\ a.month = b.month /\ a.day < b.day

\* String(value) of a number or a string; String(Date) starts with the
\* English name of a weekday, of which the model keeps the capital letter
\* class only
StringOf(v) ==
    CASE v.type = "number" ->
            (IF v.int < 0 THEN <<"-">> \o DigitsOf(0 - v.int) ELSE DigitsOf(v.int))
            \o (IF v.frac = <<>> THEN <<>> ELSE <<".">> \o v.frac)
      [] v.type = "string" -> v.chars
      [] v.type = "date" -> <<"E">>

\* aStr.localeCompare(bStr)
localeCompare(a, b) ==
    IF RanksLess(CollationRanks(a), CollationRanks(b)) THEN -1
    ELSE IF RanksLess(CollationRanks(b), CollationRanks(a)) THEN 1
    ELSE 0

Directions == {"asc", "desc"}

\* a mutation of the comparator: blanks take part in the direction
CompareValuesBlanksFlip(aValue, bValue, direction) ==
    LET result ==
            IF aValue = BlankValue /\ bValue = BlankValue THEN 0
            ELSE IF aValue = BlankValue THEN 1
            ELSE IF bValue = BlankValue THEN -1
            ELSE IF typeof(aValue) = typeof(bValue)
            THEN IF ValueLess(aValue, bValue) THEN -1
                 ELSE IF ValueLess(bValue, aValue) THEN 1
                 ELSE 0
            ELSE localeCompare(StringOf(aValue), StringOf(bValue))
    IN IF direction = "desc" THEN 0 - result ELSE result

\* the comparator of TableSorter.sortData on two coerced values
CompareValues(aValue, bValue, direction) ==
    LET result ==
            IF typeof(aValue) = typeof(bValue)
            THEN IF ValueLess(aValue, bValue) THEN -1
                 ELSE IF ValueLess(bValue, aValue) THEN 1
                 ELSE 0
            ELSE localeCompare(StringOf(aValue), StringOf(bValue))
    IN IF aValue = BlankValue /\ bValue = BlankValue THEN 0
       ELSE IF aValue = BlankValue THEN 1
       ELSE IF bValue = BlankValue THEN -1
       ELSE IF direction = "desc" THEN 0 - result ELSE result

\* [...data].sort(comparator): a stable sort over the positions of the
\* records, keys[i] the coerced value of record i (the comparator coerces
\* the same cell to the same value at every call of one sort). Each position
\* is inserted before the first already placed position it compares lower
\* than.
RECURSIVE InsertSorted(_, _, _, _)
InsertSorted(sorted, x, keys, direction) ==
    IF sorted = <<>> THEN <<x>>
    ELSE IF CompareValues(keys[x], keys[sorted[Len(sorted)]], direction) < 0
    THEN InsertSorted(SubSeq(sorted, 1, Len(sorted) - 1), x, keys, direction)
         \o <<sorted[Len(sorted)]>>
    ELSE sorted \o <<x>>

RECURSIVE SortPrefix(_, _, _)
SortPrefix(n, keys, direction) ==
    IF n = 0 THEN <<>>
    ELSE InsertSorted(SortPrefix(n - 1, keys, direction), n, keys, direction)

\* no column is sorted
Unsorted == -1

\* a mutation of sortData: a descending sort by reversal of the ascending one
sortDataByReversal(data, sort, live) ==
    IF sort.column = Unsorted THEN data
    ELSE LET keys  == [i \in 1..Len(data) |->
                          getCellValue(data[i].element, sort.column, live)]
             order == SortPrefix(Len(data), keys, "asc")
         IN [k \in 1..Len(data) |->
                data[order[IF sort.direction = "desc" THEN Len(data) + 1 - k ELSE k]]]

\* TableSorter.sortData under the sort state sort; live is the body of the
\* live table at the time of the call
sortData(data, sort, live) ==
    IF sort.column = Unsorted THEN data
    ELSE LET keys  == [i \in 1..Len(data) |->
                          getCellValue(data[i].element, sort.column, live)]
             order == SortPrefix(Len(data), keys, sort.direction)
         IN [k \in 1..Len(data) |-> data[order[k]]]

\* a mutation of sortByColumn: another click on the column sorts ascending again
sortByColumnNoToggle(sort, columnIndex) ==
    [column |-> columnIndex, direction |-> "asc"]

\* TableSorter.sortByColumn: the next sort state
sortByColumn(sort, columnIndex) ==
    IF sort.column = columnIndex
    THEN [sort EXCEPT !.direction = IF @ = "asc" THEN "desc" ELSE "asc"]
    ELSE [column |-> columnIndex, direction |-> "asc"]

ColumnNames == {columns[i] : i \in 1..Len(columns)}

\* TableSorter.initializeColumnVisibility
AllVisible == [name \in ColumnNames |-> TRUE]

\* the display of the cells of one row under the visibility map: the cells
\* at the indexes of the columns are set, the others keep their display
RowWithVisibility(row, visibility) ==
    [row EXCEPT !.hidden =
        { i \in 0..(Len(CellsOf(row)) - 1) :
            IF i < Len(columns) THEN ~visibility[columns[i + 1]] ELSE i \in @ }]

\* TableSorter.updateColumnVisibility on the rows of the body
updateColumnVisibility(rows, visibility) ==
    [i \in 1..Len(rows) |-> RowWithVisibility(rows[i], visibility)]

\* TableSorter.renderTable: the body is replaced by clones of the records'
\* elements and the visibility is applied to it
renderTable(data, visibility) ==
    updateColumnVisibility([i \in 1..Len(data) |-> cloneNode(data[i].element)],
                           visibility)

\* ---------------------------------------------- the fields of a record
Space == " "

\* String.prototype.trim
RECURSIVE trimStart(_)
trimStart(chars) ==
    IF chars # <<>> /\ Head(chars) = Space THEN trimStart(Tail(chars)) ELSE chars

RECURSIVE trimEnd(_)
trimEnd(chars) ==
    IF chars # <<>> /\ chars[Len(chars)] = Space
    THEN trimEnd(SubSeq(chars, 1, Len(chars) - 1))
    ELSE chars

trim(chars) == trimEnd(trimStart(chars))

\* cell.textContent?.trim() || ''
TextOf(cell) == trim(cell.text)

\* length of the run of white space of chars that starts at position i
RECURSIVE SpaceRun(_, _)
SpaceRun(chars, i) ==
    IF i > Len(chars) \/ chars[i] # Space THEN 0
    ELSE 1 + SpaceRun(chars, i + 1)

\* whether word stands in chars at position i
StartsAt(chars, i, word) ==
    /\ i + Len(word) - 1 <= Len(chars)
    /\ SubSeq(chars, i, i + Len(word) - 1) = word

Least(S) == CHOOSE x \in S : \A y \in S : x <= y

\* position of the leftmost match of /(\d+):(\d+)/ from position i on, 0
\* without one
RECURSIVE ClockMatchFrom(_, _)
ClockMatchFrom(chars, i) ==
    IF i > Len(chars) THEN 0
    ELSE LET n == DigitRun(chars, i)
         IN IF /\ n > 0
               /\ i + n <= Len(chars)
               /\ chars[i + n] = ":"
               /\ DigitRun(chars, i + n + 1) > 0
            THEN i
            ELSE ClockMatchFrom(chars, i + 1)

\* DOMUtils.parseTimeToSeconds: the first two groups of digits around a
\* colon are minutes and seconds
parseTimeToSeconds(timeStr) ==
    LET i == ClockMatchFrom(timeStr, 1)
        n == DigitRun(timeStr, i)
        m == DigitRun(timeStr, i + n + 1)
    IN IF i = 0 THEN 0
       ELSE DecimalValue(SubSeq(timeStr, i, i + n - 1)) * SecondsPerMinute
            + DecimalValue(SubSeq(timeStr, i + n + 1, i + n + m))

\* the rank of parseTableRow: 1 for an avatar, the position for an empty
\* cell, else the number of the text or the position when it has none
rank(row, index) ==
    LET rankCell == CellsOf(row)[1]
        rankText == TextOf(rankCell)
        hasAvatar == rankCell.avatar
    IN IF rankText = <<>> \/ hasAvatar
       THEN (IF hasAvatar THEN 1 ELSE index + 1)
       ELSE IF parseInt(rankText) \in {NaN, NumberValue(0, <<>>)}
            THEN index + 1
            ELSE parseInt(rankText).int

\* /(\d+\.?\d*)\s*(unit)/ matched at position i of chars: parseFloat of the
\* first group, None without a match
DecimalBeforeUnitAt(chars, i, units) ==
    LET n   == DigitRun(chars, i)
        dot == n > 0 /\ i + n <= Len(chars) /\ chars[i + n] = "."
        k   == IF dot THEN DigitRun(chars, i + n + 1) ELSE 0
        e   == i + n + (IF dot THEN 1 + k ELSE 0)
        u   == e + SpaceRun(chars, e)
    IN IF n > 0 /\ \E unit \in units : StartsAt(chars, u, unit)
       THEN Some(NumberValue(DecimalValue(SubSeq(chars, i, i + n - 1)),
                             SubSeq(chars, i + n + 1, i + n + k)))
       ELSE None

\* the leftmost match of /(\d+\.?\d*)\s*(unit)/ from position i on
RECURSIVE DecimalBeforeUnit(_, _, _)
DecimalBeforeUnit(chars, i, units) ==
    IF i > Len(chars) THEN None
    ELSE IF DecimalBeforeUnitAt(chars, i, units) # None
    THEN DecimalBeforeUnitAt(chars, i, units)
    ELSE DecimalBeforeUnit(chars, i + 1, units)

\* /(\d+)\s*(unit)/ matched at position i of chars: parseInt of the first
\* group, None without a match
IntegerBeforeUnitAt(chars, i, units) ==
    LET n == DigitRun(chars, i)
        u == i + n + SpaceRun(chars, i + n)
    IN IF n > 0 /\ \E unit \in units : StartsAt(chars, u, unit)
       THEN Some(DecimalValue(SubSeq(chars, i, i + n - 1)))
       ELSE None

\* the leftmost match of /(\d+)\s*(unit)/ from position i on
RECURSIVE IntegerBeforeUnit(_, _, _)
IntegerBeforeUnit(chars, i, units) ==
    IF i > Len(chars) THEN None
    ELSE IF IntegerBeforeUnitAt(chars, i, units) # None
    THEN IntegerBeforeUnitAt(chars, i, units)
    ELSE IntegerBeforeUnit(chars, i + 1, units)

\* the leftmost match of /(unit)\s*(\d+)/ from position i on
RECURSIVE IntegerAfterUnit(_, _, _)
IntegerAfterUnit(chars, i, unit) ==
    LET d == i + Len(unit) + SpaceRun(chars, i + Len(unit))
        n == DigitRun(chars, d)
    IN IF i > Len(chars) THEN None
       ELSE IF StartsAt(chars, i, unit) /\ n > 0
       THEN Some(DecimalValue(SubSeq(chars, d, d + n - 1)))
       ELSE IntegerAfterUnit(chars, i + 1, unit)

\* the units of the patterns, in the case toLowerCase leaves them
SpeedUnits == { <<"k", "m", "/", "h">>, <<"m", "p", "h">>, <<"k", "p", "h">> }
Kilometres == { <<"k", "m">> }
HeartRateUnits == { <<"b", "p", "m">>, <<Heart>> }
PowerUnits == { <<"w">>, <<"w", "a", "t", "t", "s">> }

\* the alternatives of the speed pattern in their order; the third one
\* matches nothing the first does not
speedMatch(cellText) ==
    IF DecimalBeforeUnit(toLowerCase(cellText), 1, SpeedUnits) # None
    THEN DecimalBeforeUnit(toLowerCase(cellText), 1, SpeedUnits)
    ELSE DecimalBeforeUnit(cellText, 1, Kilometres)

\* the alternatives of the heart-rate pattern; the second one matches
\* nothing the first does not
heartRateMatch(cellText) ==
    IF IntegerBeforeUnit(toLowerCase(cellText), 1, HeartRateUnits) # None
    THEN IntegerBeforeUnit(toLowerCase(cellText), 1, HeartRateUnits)
    ELSE IntegerAfterUnit(cellText, 1, <<Heart>>)

\* the alternatives of the power pattern; the second and the third match
\* nothing the first does not
powerMatch(cellText) == IntegerBeforeUnit(toLowerCase(cellText), 1, PowerUnits)

\* the cells parseTableRow scans for speed, heart rate and power: those at
\* the indices 2 .. min(cells.length, 6) - 1
FirstScanned == 2
ScanLimit == 6

ScannedCells(row) ==
    (FirstScanned + 1)..(IF Len(CellsOf(row)) < ScanLimit THEN Len(CellsOf(row))
                         ELSE ScanLimit)

\* null where a number is expected
NullValue == [type |-> "null"]

\* speed: parseFloat of the first scanned cell that matches, else 0
speed(row) ==
    LET hits == { i \in ScannedCells(row) : speedMatch(TextOf(CellsOf(row)[i])) # None }
    IN IF hits = {} THEN NumberValue(0, <<>>)
       ELSE Val(speedMatch(TextOf(CellsOf(row)[Least(hits)])))

\* heartRate: parseInt of the first scanned cell that matches, else null
heartRate(row) ==
    LET hits == { i \in ScannedCells(row) :
                    heartRateMatch(TextOf(CellsOf(row)[i])) # None }
    IN IF hits = {} THEN NullValue
       ELSE NumberValue(Val(heartRateMatch(TextOf(CellsOf(row)[Least(hits)]))), <<>>)

\* power: parseInt of the first scanned cell that matches, else null
power(row) ==
    LET hits == { i \in ScannedCells(row) : powerMatch(TextOf(CellsOf(row)[i])) # None }
    IN IF hits = {} THEN NullValue
       ELSE NumberValue(Val(powerMatch(TextOf(CellsOf(row)[Least(hits)]))), <<>>)

\* the cells parseTableRow scans for the time: the last TimeCells ones, from
\* the index 2 on
TimeCells == 3

TimeScannedCells(row) ==
    (IF Len(CellsOf(row)) - TimeCells < FirstScanned THEN FirstScanned + 1
     ELSE Len(CellsOf(row)) - TimeCells + 1)..Len(CellsOf(row))

\* the index of the first cell of the time scan that holds digits, a colon
\* and digits; 0 without one
timeCell(row) ==
    LET hits == { i \in TimeScannedCells(row) :
                    ClockMatchFrom(TextOf(CellsOf(row)[i]), 1) > 0 }
    IN IF hits = {} THEN 0 ELSE Least(hits)

\* time: the text of that cell, else ''
time(row) == IF timeCell(row) = 0 THEN <<>> ELSE TextOf(CellsOf(row)[timeCell(row)])

\* timeInSeconds: parseTimeToSeconds of that text, else 0
timeInSeconds(row) == IF timeCell(row) = 0 THEN 0 ELSE parseTimeToSeconds(time(row))

\* the fields parseTableRow gives the record it makes of row at index
LeaderboardRecord(row, index) ==
    [rank          |-> rank(row, index),
     name          |-> TextOf(CellsOf(row)[2]),
     date          |-> TextOf(CellsOf(row)[3]),
     speed         |-> speed(row),
     heartRate     |-> heartRate(row),
     power         |-> power(row),
     time          |-> time(row),
     timeInSeconds |-> timeInSeconds(row)]

\* name: the host rows hold the athlete link in the name cell
athleteName(row) == TextOf(CellsOf(row)[2])

\* date: the text of the cell at index 2
activityDate(row) == TextOf(CellsOf(row)[3])

\* /(\d+,?\d*\.?\d*)/ matched at position i of chars: the match without its
\* first comma as a number (parseFloat), None without a match
ClimbNumberAt(chars, i) ==
    LET n     == DigitRun(chars, i)
        comma == n > 0 /\ i + n <= Len(chars) /\ chars[i + n] = ","
        c     == i + n + (IF comma THEN 1 ELSE 0)
        k     == DigitRun(chars, c)
        dot   == c + k <= Len(chars) /\ chars[c + k] = "."
        m     == IF dot THEN DigitRun(chars, c + k + 1) ELSE 0
    IN IF n = 0 THEN None
       ELSE Some([value |-> NumberValue(DecimalValue(SubSeq(chars, i, i + n - 1)
                                                     \o SubSeq(chars, c, c + k - 1)),
                                        SubSeq(chars, c + k + 1, c + k + m)),
                  end   |-> c + k + (IF dot THEN 1 + m ELSE 0)])

\* the leftmost match of /(\d+,?\d*\.?\d*)\s*(unit)/ from position i on
RECURSIVE ClimbBeforeUnit(_, _, _)
ClimbBeforeUnit(chars, i, units) ==
    LET hit == ClimbNumberAt(chars, i)
        u   == Val(hit).end + SpaceRun(chars, Val(hit).end)
    IN IF i > Len(chars) THEN None
       ELSE IF hit # None /\ \E unit \in units : StartsAt(chars, u, unit)
       THEN Some(Val(hit).value)
       ELSE ClimbBeforeUnit(chars, i + 1, units)

\* length of the run of colons and white space that starts at position i
RECURSIVE ColonOrSpaceRun(_, _)
ColonOrSpaceRun(chars, i) ==
    IF i > Len(chars) \/ chars[i] \notin {":", Space} THEN 0
    ELSE 1 + ColonOrSpaceRun(chars, i + 1)

\* the leftmost match of /VAM[:\s]*(\d+,?\d*\.?\d*)/i from position i on
RECURSIVE ClimbAfterUnit(_, _, _)
ClimbAfterUnit(chars, i, unit) ==
    LET d == i + Len(unit) + ColonOrSpaceRun(chars, i + Len(unit))
    IN IF i > Len(chars) THEN None
       ELSE IF StartsAt(chars, i, unit) /\ ClimbNumberAt(chars, d) # None
       THEN Some(Val(ClimbNumberAt(chars, d)).value)
       ELSE ClimbAfterUnit(chars, i + 1, unit)

\* the leftmost match of /(\d+,?\d*\.?\d*)/ from position i on
RECURSIVE ClimbNumber(_, _)
ClimbNumber(chars, i) ==
    IF i > Len(chars) THEN None
    ELSE IF ClimbNumberAt(chars, i) # None THEN Some(Val(ClimbNumberAt(chars, i)).value)
    ELSE ClimbNumber(chars, i + 1)

ClimbUnits == { <<"m", "/", "m", "i", "n">>, <<"v", "a", "m">> }

\* the alternatives of the climbing-speed pattern; the second and the
\* third match nothing the first does not
climbingSpeedMatch(cellText) ==
    IF ClimbBeforeUnit(toLowerCase(cellText), 1, ClimbUnits) # None
    THEN ClimbBeforeUnit(toLowerCase(cellText), 1, ClimbUnits)
    ELSE ClimbAfterUnit(toLowerCase(cellText), 1, <<"v", "a", "m">>)

\* the cells scanned for the climbing speed are those at the indices
\* 2 .. min(cells.length, 8) - 1; the cell at index 6 is read again when
\* none of them matches
ClimbScanLimit == 8
ClimbCell == 6
LeastClimb == 100
ClimbLimit == 5000

\* whether chars holds word
Includes(chars, word) == \E i \in 1..Len(chars) : StartsAt(chars, i, word)

\* the text of the cell at index 6 as a climbing speed: a number over 100
\* and under 5000 in a text without 'km', '時' and ':'
potentialVAM(cell6Text) ==
    LET cell6Number == ClimbNumber(cell6Text, 1)
        v == Val(cell6Number)
    IN IF /\ cell6Number # None
          /\ ~Includes(cell6Text, <<"k", "m">>)
          /\ ~Includes(cell6Text, <<Ji>>)
          /\ ~Includes(cell6Text, <<":">>)
          /\ (v.int > LeastClimb \/ (v.int = LeastClimb /\ v.frac # <<>>))
          /\ v.int < ClimbLimit
       THEN v
       ELSE NumberValue(0, <<>>)

\* averageClimbingSpeed
averageClimbingSpeed(row) ==
    LET cells == CellsOf(row)
        hits == { i \in (FirstScanned + 1)..(IF Len(cells) < ClimbScanLimit
                                             THEN Len(cells) ELSE ClimbScanLimit) :
                    climbingSpeedMatch(TextOf(cells[i])) # None }
        found == IF hits = {} THEN NumberValue(0, <<>>)
                 ELSE Val(climbingSpeedMatch(TextOf(cells[Least(hits)])))
    IN IF found = NumberValue(0, <<>>) /\ Len(cells) > ClimbCell
       THEN potentialVAM(TextOf(cells[ClimbCell + 1]))
       ELSE found

\* --------------------------------------------------------------- CSV export
Comma == ","
DoubleQuote == "\""
LineFeed == "\n"

\* the sort indicator '↕'
Arrow == "arrow"

\* seqs.join(separator)
RECURSIVE Join(_, _)
Join(seqs, separator) ==
    IF seqs = <<>> THEN <<>>
    ELSE IF Len(seqs) = 1 THEN seqs[1]
    ELSE seqs[1] \o <<separator>> \o Join(Tail(seqs), separator)

\* chars.replace(/c/g, replacement)
RECURSIVE ReplaceAll(_, _, _)
ReplaceAll(chars, c, replacement) ==
    IF chars = <<>> THEN <<>>
    ELSE (IF Head(chars) = c THEN replacement ELSE <<Head(chars)>>)
         \o ReplaceAll(Tail(chars), c, replacement)

\* th.textContent of header i: its text and that of the indicator appended
HeaderContent(texts, h, i) == texts[i] \o (IF h.indicator THEN <<Arrow>> ELSE <<>>)

\* PageLoader.getTableHeaders: the trimmed texts without the indicator,
\* those that are empty left out
NotEmpty(header) == header # <<>>

getTableHeaders(texts, h) ==
    SelectSeq([i \in 1..Len(texts) |->
                  trim(ReplaceAll(trim(HeaderContent(texts, h, i)), Arrow, <<>>))],
              NotEmpty)

\* String(value) of a number field
NumberText(n) == DigitsOf(n)

\* the values of a record in the order formatRecordForCSV lists them:
\* String(value), with '' for a heart rate or a power that is null or 0
RecordValues(row, index) ==
    << NumberText(rank(row, index)),
       athleteName(row),
       activityDate(row),
       StringOf(speed(row)),
       IF heartRate(row) \in {NullValue, NumberValue(0, <<>>)} THEN <<>>
       ELSE StringOf(heartRate(row)),
       StringOf(averageClimbingSpeed(row)),
       IF power(row) \in {NullValue, NumberValue(0, <<>>)} THEN <<>>
       ELSE StringOf(power(row)),
       time(row) >>

\* a value as formatRecordForCSV emits it: in double quotes with its double
\* quotes doubled when it holds a comma, a double quote or a line feed
CsvValue(stringValue) ==
    IF \E i \in 1..Len(stringValue) : stringValue[i] \in {Comma, DoubleQuote, LineFeed}
    THEN <<DoubleQuote>>
         \o ReplaceAll(stringValue, DoubleQuote, <<DoubleQuote, DoubleQuote>>)
         \o <<DoubleQuote>>
    ELSE stringValue

\* PageLoader.formatRecordForCSV
formatRecordForCSV(record) ==
    [i \in 1..Len(RecordValues(record.element, record.index)) |->
        CsvValue(RecordValues(record.element, record.index)[i])]

\* the content of the file exportToCSV makes of the headers and the records
csvContent(headerRow, dataToExport) ==
    Join(<<Join(headerRow, Comma)>>
         \o [i \in 1..Len(dataToExport) |->
                Join(formatRecordForCSV(dataToExport[i]), Comma)],
         LineFeed)

\* --------------------------------------------------------------- the state
VARIABLES
    dom,                \* the host page
    totalPages,         \* what DOMUtils.getTotalPages() returns for it
    isLoadingAllPages,  \* PageLoader.isLoadingAllPages
    loadingAborted,     \* PageLoader.loadingAborted
    allPagesData,       \* PageLoader.allPagesData: the records of the array
    dataId,             \* identity of the array allPagesData refers to
    tbody,              \* rows of the live table body
    button,             \* PageLoader.loadAllPagesButton
    paginationHidden,   \* .pagination has display: none
    alerts,             \* failure alerts raised by loadAllPages
    run,                \* the loadAllPages invocations, by call number
    inflight,           \* fetches that have not settled
    originalData,       \* LeaderboardController.originalData
    currentSort,        \* TableSorter.currentSort
    columnVisibility,   \* TableSorter.columnVisibility, by column name
    headerClicks,       \* the header clicked last and whether it was clicked
                        \* an odd number of times in a row
    builds,             \* parity of the number of times the controller has
                        \* rebuilt its components
    components,         \* the TableSorter and the PageLoader the controller
                        \* holds, and whether setupLeaderboard has run
    controls,           \* the elements the components have inserted
    headers,            \* the th elements of the table
    download,           \* the CSV file handed to the browser last
    stale,              \* the PageLoader the controller cleaned up while a
                        \* run of it was in flight, and that run
    elements,           \* how many elements of each kind the components
                        \* insert are in the document and on a th
    timers              \* the handlers the controller has scheduled

vars == <<dom, totalPages, isLoadingAllPages, loadingAborted, allPagesData, dataId,
          tbody, button, paginationHidden, alerts, run, inflight,
          originalData, currentSort, columnVisibility, headerClicks, builds,
          components, controls, headers, download, stale, elements, timers>>

\* what the components have added to the page and handed to the browser,
\* and the component the controller has dropped
pageVars == <<components, controls, headers, download, stale, elements, timers>>

\* the state of the sort and visibility controller
sorterVars == <<originalData, currentSort, columnVisibility, headerClicks, builds>>

\* no header was clicked since the table was set up
NoClicks == [column |-> Unsorted, odd |-> FALSE]

\* one more click, on the header of column columnIndex
ClickedAgain(clicks, columnIndex) ==
    IF clicks.column = columnIndex
    THEN [clicks EXCEPT !.odd = ~@]
    ELSE [column |-> columnIndex, odd |-> TRUE]

\* TableSorter constructor: private currentSort = { column: -1, direction: 'asc' }
InitialSort == [column |-> Unsorted, direction |-> "asc"]

\* one invocation: where it stands (pc, page, totalPages, progress overlay),
\* what it returned (outcome, result: identity of the returned array; its
\* locals are dropped on return), and
\* what it did and saw (started: the pages it began to handle, 1 for parsing
\* the current page; done: the pages it finished handling; failed: which
\* requests of the current page failed, "get" while the fallback POST is
\* pending after a failed GET, "both" once that POST has failed too;
\* cancelled: its cancel button was clicked; tableAtStart: the table body
\* when it was called)
IdleRun ==
    [pc |-> "idle", page |-> 0, totalPages |-> 0, progress |-> FALSE,
     outcome |-> "none", result |-> 0, started |-> <<>>, done |-> <<>>,
     failed |-> "none",
     cancelled |-> FALSE, tableAtStart |-> <<>>]

\* a returned invocation
Returned(outcome, result) ==
    [IdleRun EXCEPT !.pc = "returned", !.outcome = outcome, !.result = result]

Active(r) == run[r].pc \in {"fetching", "delay"}

Requests(r, fl) == {f \in fl : f.run = r}

\* no PageLoader was cleaned up during a run. Of one that was: where its
\* run stands (pc, page, totalPages, progress overlay), the request it waits
\* for (req), its fields allPagesData and loadingAborted, and whether the
\* table it was made on is still the table of the document (tableKept)
NoStale ==
    [pc |-> "none", page |-> 0, totalPages |-> 0, progress |-> FALSE, req |-> None,
     allPagesData |-> <<>>, loadingAborted |-> FALSE, tableKept |-> FALSE]

\* the th elements of a page no TableSorter was made on: which elements they
\* are (a clone is another element than its source; two generations
\* alternate) and whether a sort indicator was appended
HostHeaders == [generation |-> 0, indicator |-> FALSE]

\* the controller before setupLeaderboard has run
\* (table: this.table of the controller is null, the table of the document
\* or a table the host has removed; attached: the table the sorter was made
\* on is the table of the document)
NoComponents ==
    [tableSorter |-> FALSE, pageLoader |-> FALSE, setupRan |-> FALSE,
     table |-> "none", attached |-> FALSE]

\* a page the components have inserted nothing into
NoControls ==
    [container |-> FALSE, csvExportButton |-> FALSE, columnControlPanel |-> FALSE]

\* a page the controller has set its components up on
AllComponents ==
    [tableSorter |-> TRUE, pageLoader |-> TRUE, setupRan |-> TRUE,
     table |-> "live", attached |-> TRUE]

\* a document the components have inserted nothing into: the numbers of
\* .page-loader-button-container, .load-all-pages-btn, .csv-export-btn and
\* .column-control-panel elements, and of .sort-indicator elements and click
\* listeners on a th of the table
NoElements ==
    [container |-> 0, loadAllPagesButton |-> 0, csvExportButton |-> 0,
     columnControlPanel |-> 0, indicators |-> 0, listeners |-> 0]

\* one element less, when there is one: remove() on the first match
LessOne(n) == IF n > 0 THEN n - 1 ELSE 0

\* a mutation of removeAllExistingButtons: nothing is removed
removeNoExistingButtons(e) == e

\* PageLoader.removeAllExistingButtons: every load-all and CSV button of the
\* document and the first button container are removed
removeAllExistingButtons(e) ==
    [e EXCEPT !.loadAllPagesButton = 0, !.csvExportButton = 0,
              !.container = LessOne(@)]

\* PageLoader.addLoadAllPagesButton on page d: a container and a CSV button,
\* and a load-all button with a .pagination element and more than one page
addLoadAllPagesButton(e, d) ==
    LET removed == removeAllExistingButtons(e)
    IN IF ~d.pagination \/ getTotalPages(d) <= 1
       THEN [removed EXCEPT !.container = @ + 1, !.csvExportButton = @ + 1]
       ELSE [removed EXCEPT !.container = IF @ = 0 THEN 1 ELSE @,
                            !.loadAllPagesButton = @ + 1,
                            !.csvExportButton = @ + 1]

\* TableSorter constructor (createColumnControlPanel, setupSortingHeaders):
\* a panel is inserted, an indicator is appended to every th and a click
\* listener is added to it
TableSorterConstructed(e) ==
    [e EXCEPT !.columnControlPanel = @ + 1, !.indicators = @ + 1,
              !.listeners = @ + 1]

\* TableSorter.cleanup: the sorter's panel is removed; on the table it was
\* made on, the first indicator of every th is removed and the th is
\* replaced by a clone, which has no listener
TableSorterCleanedUp(e, attached) ==
    [e EXCEPT !.columnControlPanel = LessOne(@),
              !.indicators = IF attached THEN LessOne(@) ELSE @,
              !.listeners = IF attached THEN 0 ELSE @]

AllControls ==
    [container |-> TRUE, csvExportButton |-> TRUE, columnControlPanel |-> TRUE]

\* a PageLoader constructed on the table of host page d whose body is rows
InitFor(d, rows) ==
    /\ dom = d
    /\ totalPages = getTotalPages(d)
    /\ isLoadingAllPages = FALSE
    /\ loadingAborted = FALSE
    /\ allPagesData = <<>>
    /\ dataId = 0
    /\ tbody = rows
    /\ button = [exists |-> d.pagination /\ getTotalPages(d) > 1, disabled |-> FALSE,
                 loading |-> FALSE]
    /\ paginationHidden = FALSE
    /\ alerts = 0
    /\ run = [r \in Runs |-> IdleRun]
    /\ inflight = {}
    /\ originalData = <<>>
    /\ currentSort = InitialSort
    /\ columnVisibility = AllVisible
    /\ headerClicks = NoClicks
    /\ builds = 0
    /\ components = [NoComponents EXCEPT !.pageLoader = TRUE]
    /\ controls = [NoControls EXCEPT !.container = TRUE, !.csvExportButton = TRUE]
    /\ headers = HostHeaders
    /\ download = None
    /\ stale = NoStale
    /\ elements = addLoadAllPagesButton(NoElements, d)
    /\ timers = {}

\* host page d with the table body rows before the content script has run
InitUnset(d, rows) ==
    /\ dom = d
    /\ totalPages = getTotalPages(d)
    /\ isLoadingAllPages = FALSE
    /\ loadingAborted = FALSE
    /\ allPagesData = <<>>
    /\ dataId = 0
    /\ tbody = rows
    /\ button = [exists |-> FALSE, disabled |-> FALSE, loading |-> FALSE]
    /\ paginationHidden = FALSE
    /\ alerts = 0
    /\ run = [r \in Runs |-> IdleRun]
    /\ inflight = {}
    /\ originalData = <<>>
    /\ currentSort = InitialSort
    /\ columnVisibility = AllVisible
    /\ headerClicks = NoClicks
    /\ builds = 0
    /\ components = NoComponents
    /\ controls = NoControls
    /\ headers = HostHeaders
    /\ download = None
    /\ stale = NoStale
    /\ elements = NoElements
    /\ timers = {}

\* a leaderboard of 1..MaxPages pages
Init == \E n \in 1..MaxPages : InitFor(HostPage(DomFiltered, n), InitialBody)

\* any of the pages, with a second page to load
InitReq == \E d \in Doms, rows \in BodiesOfPage(1) : InitFor(HostPage(d, 2), rows)

\* ------------------------------------------------------------- PageLoader
\* what the cancel handler and the finally block do to the load-all button
ButtonRestored ==
    IF button.exists THEN [button EXCEPT !.disabled = FALSE, !.loading = FALSE]
    ELSE button

\* appendAllDataToTable: a clone of every record's element replaces the body
AppendedRowsByReference(data) == [i \in 1..Len(data) |-> data[i].element]

AppendedRows(data) == [i \in 1..Len(data) |-> cloneNode(data[i].element)]

\* for (page = 2; ...; page++)
FirstPage == 2
NextPage(page) == page + 1

\* loadPageData: the GET result is taken when it holds a record
GetSucceededAlways(getResult) == Len(getResult) >= 0

GetSucceeded(getResult) == Len(getResult) > 0

\* const pageData = await this.loadPageData(page): the loop goes on once the
\* page's data is resolved
PageDataNotAwaited(r) == run[r].pc \in {"fetching", "delay"}

PageDataAwaited(r) == run[r].pc = "delay"

\* the next iteration of the for loop: leave on the abort flag, else start the
\* page's GET request (loadPageData -> loadPageDataGET -> fetch)
LoopStep(r, page) ==
    IF loadingAborted
    THEN /\ run' = [run EXCEPT ![r] = Returned("cancelled", dataId)]
         /\ isLoadingAllPages' = FALSE
         /\ loadingAborted' = FALSE
         /\ button' = ButtonRestored
         /\ UNCHANGED inflight
    ELSE /\ run' = [run EXCEPT ![r].pc = "fetching", ![r].page = page,
                               ![r].started = Append(@, page),
                               ![r].failed = "none"]
         /\ inflight' = inflight \cup {[run |-> r, req |-> buildGetRequest(dom, page)]}
         /\ UNCHANGED <<isLoadingAllPages, loadingAborted, button>>

\* loadAllPages up to its first await
LoadAllPages(r) ==
    /\ run[r].pc = "idle"
    /\ \A q \in Runs : q < r => run[q].pc # "idle"
    /\ IF isLoadingAllPages
       THEN /\ run' = [run EXCEPT ![r] = Returned("noop", dataId)]
            /\ UNCHANGED <<isLoadingAllPages, loadingAborted, allPagesData, dataId,
                           button, inflight>>
       ELSE IF totalPages <= 1
       THEN /\ isLoadingAllPages' = TRUE
            /\ loadingAborted' = FALSE
            /\ allPagesData' = ParseRows(tbody)
            /\ dataId' = dataId + 1
            /\ run' = [run EXCEPT ![r] = Returned("single", dataId + 1)]
            /\ UNCHANGED <<button, inflight>>
       ELSE /\ isLoadingAllPages' = TRUE
            /\ loadingAborted' = FALSE
            /\ button' = IF button.exists
                         THEN [button EXCEPT !.disabled = TRUE, !.loading = TRUE]
                         ELSE button
            /\ allPagesData' = ParseRows(tbody)
            /\ dataId' = dataId + 1
            /\ run' = [run EXCEPT ![r].pc = "fetching", ![r].page = FirstPage,
                                  ![r].totalPages = totalPages,
                                  ![r].progress = TRUE,
                                  ![r].started = <<1, FirstPage>>,
                                  ![r].done = <<1>>,
                                  ![r].tableAtStart = tbody]
            /\ inflight' = inflight \cup
                             {[run |-> r, req |-> buildGetRequest(dom, FirstPage)]}
    /\ UNCHANGED <<dom, totalPages, tbody, paginationHidden, alerts>>
    /\ UNCHANGED <<sorterVars, pageVars>>

\* click on the load-all button
ClickLoadAllPages(r) ==
    /\ button.exists
    /\ ~button.disabled
    /\ LoadAllPages(r)

\* loadAllPages called through the controller (loadAllPagesAndSort)
CallLoadAllPages(r) == LoadAllPages(r)

\* the GET of loadPageData settles: resolve on records (push them, start the
\* 500 ms delay), else fall back to POST
GetSettles(f, resp) ==
    LET r == f.run
        getResult == parsePageData(resp)
    IN /\ f \in inflight
       /\ f.req.method = "GET"
       /\ IF GetSucceeded(getResult)
          THEN /\ allPagesData' = allPagesData \o getResult
               /\ run' = [run EXCEPT ![r].pc = "delay",
                                     ![r].done = Append(@, f.req.page)]
               /\ inflight' = inflight \ {f}
          ELSE /\ inflight' = (inflight \ {f}) \cup
                    {[run |-> r, req |-> buildFilteredPageRequest(dom, f.req.page)]}
               /\ run' = [run EXCEPT ![r].failed = IF resp.ok THEN "none" ELSE "get"]
               /\ UNCHANGED allPagesData
       /\ UNCHANGED <<dom, totalPages, isLoadingAllPages, loadingAborted, dataId,
                      tbody, button, paginationHidden, alerts>>
       /\ UNCHANGED <<sorterVars, pageVars>>

\* the POST of loadPageData settles: resolve with its records, or with none
PostSettles(f, resp) ==
    LET r == f.run
        pageData == parsePageData(resp)
    IN /\ f \in inflight
       /\ f.req.method = "POST"
       /\ allPagesData' = allPagesData \o pageData
       /\ run' = [run EXCEPT ![r].pc = "delay",
                             ![r].done = Append(@, f.req.page),
                             ![r].failed =
                                 IF run[r].failed = "get" /\ ~resp.ok
                                 THEN "both" ELSE "none"]
       /\ inflight' = inflight \ {f}
       /\ UNCHANGED <<dom, totalPages, isLoadingAllPages, loadingAborted, dataId,
                      tbody, button, paginationHidden, alerts>>
       /\ UNCHANGED <<sorterVars, pageVars>>

\* the delay after a page ends: next loop iteration, or the merge after the
\* last page, and the finally block
DelayElapses(r) ==
    /\ PageDataAwaited(r)
    /\ IF NextPage(run[r].page) <= run[r].totalPages
       THEN /\ LoopStep(r, NextPage(run[r].page))
            /\ UNCHANGED <<tbody, paginationHidden>>
       ELSE /\ tbody' = AppendedRows(allPagesData)
            /\ paginationHidden' = (paginationHidden \/ dom.pagination)
            /\ run' = [run EXCEPT ![r] = Returned("completed", dataId)]
            /\ isLoadingAllPages' = FALSE
            /\ loadingAborted' = FALSE
            /\ button' = ButtonRestored
            /\ UNCHANGED inflight
    /\ UNCHANGED <<dom, totalPages, allPagesData, dataId, alerts>>
    /\ UNCHANGED <<sorterVars, pageVars>>

\* click on the cancel button of the progress overlay of invocation r
CancelClick(r) ==
    /\ run[r].progress
    /\ loadingAborted' = TRUE
    /\ isLoadingAllPages' = FALSE
    /\ run' = [run EXCEPT ![r].progress = FALSE, ![r].cancelled = TRUE]
    /\ button' = ButtonRestored
    /\ UNCHANGED <<dom, totalPages, allPagesData, dataId, tbody, paginationHidden,
                   alerts, inflight>>
    /\ UNCHANGED <<sorterVars, pageVars>>

\* --------------------------------------------------- LeaderboardController
\* the table bodies the host renders on the first page
TableBodies ==
    { <<TableRow(1, "first"), TableRow(1, "second")>>,
      <<TableRow(1, "tenth"), TableRow(1, "norank"), TableRow(1, "second")>> }

\* PageLoader.hasAllPagesData
hasAllPagesData == Len(allPagesData) > 0

\* renderSortedData: what the controller sorts
dataToSort == IF hasAllPagesData THEN allPagesData ELSE originalData

\* the records whose element is a row of the live body are those rows:
\* a display set on the row is set on the record's element
RecordsWithVisibility(data, live, visibility) ==
    [i \in 1..Len(data) |->
        IF PositionIn(live, data[i].element, 1) > 0
        THEN [data[i] EXCEPT !.element = RowWithVisibility(@, visibility)]
        ELSE data[i]]

\* updateColumnVisibility on the live table under the map visibility
ApplyVisibility(visibility) ==
    /\ columnVisibility' = visibility
    /\ tbody' = updateColumnVisibility(tbody, visibility)
    /\ allPagesData' = RecordsWithVisibility(allPagesData, tbody, visibility)
    /\ originalData' = RecordsWithVisibility(originalData, tbody, visibility)
    /\ UNCHANGED <<dom, totalPages, isLoadingAllPages, loadingAborted, dataId,
                   button, paginationHidden, alerts, run, inflight, currentSort,
                   headerClicks, builds>>
    /\ UNCHANGED pageVars

\* click on the header of column columnIndex: the sortByColumn the
\* controller installs (sortByColumn, then renderSortedData)
SortByColumn(columnIndex) ==
    /\ currentSort' = sortByColumn(currentSort, columnIndex)
    /\ headerClicks' = ClickedAgain(headerClicks, columnIndex)
    /\ tbody' = renderTable(sortData(dataToSort, currentSort', tbody),
                            columnVisibility)
    /\ UNCHANGED <<dom, totalPages, isLoadingAllPages, loadingAborted,
                   allPagesData, dataId, button, paginationHidden, alerts, run,
                   inflight, originalData, columnVisibility, builds>>
    /\ UNCHANGED pageVars

\* change of the checkbox of column columnName
CheckboxChange(columnName, checked) ==
    /\ columnVisibility[columnName] # checked
    /\ ApplyVisibility([columnVisibility EXCEPT ![columnName] = checked])

\* click on the select-all button
SelectAll == ApplyVisibility([name \in ColumnNames |-> TRUE])

\* click on the select-none button
SelectNone == ApplyVisibility([name \in ColumnNames |-> FALSE])

\* the sorter the controller holds
OldTableSorter == [currentSort |-> currentSort, columnVisibility |-> columnVisibility]

\* a mutation of the rebuild: the controller goes on with the sorter it holds
TableSorterKept(old) == old

\* this.tableSorter = new TableSorter(this.table): the new sorter is
\* unsorted and shows every column, whatever the state of the old one
TableSorterFor(old) == [currentSort |-> InitialSort, columnVisibility |-> AllVisible]

\* TableSorter.cleanup on the th elements: the indicator is removed and
\* every th is replaced by a clone of itself
TableSorterCleanup(h) == [h EXCEPT !.generation = 1 - @, !.indicator = FALSE]

\* TableSorter.setupSortingHeaders: a sort indicator is appended to every th
setupSortingHeaders(h) == [h EXCEPT !.indicator = TRUE]

\* a mutation of the guards of setupLeaderboard: it goes on without a table
HasLeaderboardAlways(d) == TRUE

\* the guards of setupLeaderboard: the page has a .table-leaderboard and the
\* table has a tbody
HasLeaderboard(d) == d.table = "full"

\* setupLeaderboard / reinitializeAfterContentChange on a table whose body
\* is rows: without a table or a body nothing is done; else the components
\* the controller holds are cleaned up, the records are parsed, a new
\* TableSorter and a new PageLoader are made and the records are rendered
\* when there is one
SetupLeaderboard(d, rows, hidden) ==
    IF ~HasLeaderboard(d)
    THEN /\ dom' = d
         /\ components' = [components EXCEPT !.setupRan = TRUE,
                                             !.table = IF d.table = "absent"
                                                       THEN "none" ELSE "live"]
         /\ UNCHANGED <<totalPages, isLoadingAllPages, loadingAborted, allPagesData,
                        dataId, tbody, button, paginationHidden, alerts, run,
                        inflight, sorterVars, controls, headers, download,
                        elements>>
    ELSE
    /\ dom' = d
    /\ totalPages' = getTotalPages(d)
    /\ isLoadingAllPages' = FALSE
    /\ loadingAborted' = FALSE
    /\ allPagesData' = <<>>
    /\ dataId' = 0
    /\ originalData' = ParseRows(rows)
    /\ currentSort' = TableSorterFor(OldTableSorter).currentSort
    /\ columnVisibility' = TableSorterFor(OldTableSorter).columnVisibility
    /\ headerClicks' = NoClicks
    /\ builds' = 1 - builds
    /\ tbody' = IF Len(ParseRows(rows)) > 0
                THEN renderTable(ParseRows(rows), AllVisible)
                ELSE rows
    /\ button' = [exists |-> d.pagination /\ getTotalPages(d) > 1,
                  disabled |-> FALSE, loading |-> FALSE]
    /\ paginationHidden' = hidden
    /\ alerts' = 0
    /\ run' = [r \in Runs |-> IdleRun]
    /\ inflight' = {}
    /\ components' = AllComponents
    /\ controls' = AllControls
    /\ headers' = setupSortingHeaders(IF components.tableSorter /\ components.attached
                                      THEN TableSorterCleanup(headers)
                                      ELSE headers)
    /\ download' = download
    /\ elements' =
          LET sorterGone == IF components.tableSorter
                            THEN TableSorterCleanedUp(elements, components.attached)
                            ELSE elements
              loaderGone == IF components.pageLoader
                            THEN removeAllExistingButtons(sorterGone)
                            ELSE sorterGone
          IN addLoadAllPagesButton(TableSorterConstructed(loaderGone), d)

\* the host replaces the content of the leaderboard (a filter is applied)
\* while no aggregation runs, and the controller rebuilds its components
ContentChanged(rows) ==
    /\ \A r \in Runs : ~Active(r)
    /\ SetupLeaderboard(dom, rows, paginationHidden)
    /\ UNCHANGED <<stale, timers>>

\* PageLoader.cleanup on the aggregator whose invocation r is in flight: its
\* list is a new empty array and its flags are cleared; its run, the request
\* the run waits for and the progress overlay stay
CleanedUp(r, kept) ==
    [pc |-> run[r].pc, page |-> run[r].page, totalPages |-> run[r].totalPages,
     progress |-> run[r].progress,
     req |-> IF Requests(r, inflight) = {} THEN None
             ELSE Some((CHOOSE f \in Requests(r, inflight) : TRUE).req),
     allPagesData |-> <<>>, loadingAborted |-> FALSE, tableKept |-> kept]

\* the host replaces the content of the leaderboard during the one run in
\* flight, keeping the table element or not, and the controller rebuilds
\* its components: the old aggregator is cleaned up and dropped, not stopped
ContentChangedDuringRun(rows, kept) ==
    /\ stale.pc = "none"
    /\ \E r \in Runs :
          /\ Active(r)
          /\ \A q \in Runs \ {r} : ~Active(q)
          /\ stale' = CleanedUp(r, kept)
    /\ SetupLeaderboard(dom, rows, paginationHidden)
    /\ UNCHANGED timers

StaleActive == stale.pc \in {"fetching", "delay"}

\* the GET of the dropped aggregator's loadPageData settles
StaleGetSettles(resp) ==
    /\ stale.pc = "fetching"
    /\ stale.req # None
    /\ Val(stale.req).method = "GET"
    /\ stale' = IF GetSucceeded(parsePageData(resp))
                THEN [stale EXCEPT !.allPagesData = @ \o parsePageData(resp),
                                   !.pc = "delay", !.req = None]
                ELSE [stale EXCEPT
                         !.req = Some(buildFilteredPageRequest(dom, stale.page))]
    /\ UNCHANGED <<dom, totalPages, isLoadingAllPages, loadingAborted, allPagesData,
                   dataId, tbody, button, paginationHidden, alerts, run, inflight,
                   sorterVars, components, controls, headers, download, elements,
                   timers>>

\* the POST of the dropped aggregator's loadPageData settles
StalePostSettles(resp) ==
    /\ stale.pc = "fetching"
    /\ stale.req # None
    /\ Val(stale.req).method = "POST"
    /\ stale' = [stale EXCEPT !.allPagesData = @ \o parsePageData(resp),
                              !.pc = "delay", !.req = None]
    /\ UNCHANGED <<dom, totalPages, isLoadingAllPages, loadingAborted, allPagesData,
                   dataId, tbody, button, paginationHidden, alerts, run, inflight,
                   sorterVars, components, controls, headers, download, elements,
                   timers>>

\* the delay of the dropped aggregator's run elapses: the abort check and
\* the next page, or appendAllDataToTable on its table and
\* hideOriginalPagination on the document
StaleDelayElapses ==
    /\ stale.pc = "delay"
    /\ IF NextPage(stale.page) <= stale.totalPages
       THEN /\ stale' = IF stale.loadingAborted
                        THEN [stale EXCEPT !.pc = "returned", !.progress = FALSE,
                                           !.loadingAborted = FALSE]
                        ELSE [stale EXCEPT
                                 !.pc = "fetching", !.page = NextPage(@),
                                 !.req = Some(buildGetRequest(dom, NextPage(stale.page)))]
            /\ UNCHANGED <<tbody, paginationHidden>>
       ELSE /\ tbody' = IF stale.tableKept THEN AppendedRows(stale.allPagesData)
                        ELSE tbody
            /\ paginationHidden' = (paginationHidden \/ dom.pagination)
            /\ stale' = [stale EXCEPT !.pc = "returned", !.progress = FALSE,
                                      !.loadingAborted = FALSE]
    /\ UNCHANGED <<dom, totalPages, isLoadingAllPages, loadingAborted, allPagesData,
                   dataId, button, alerts, run, inflight,
                   sorterVars, components, controls, headers, download, elements,
                   timers>>

\* click on the cancel button of the overlay of the dropped aggregator's run
StaleCancelClick ==
    /\ stale.progress
    /\ stale' = [stale EXCEPT !.loadingAborted = TRUE, !.progress = FALSE]
    /\ UNCHANGED <<dom, totalPages, isLoadingAllPages, loadingAborted, allPagesData,
                   dataId, tbody, button, paginationHidden, alerts, run, inflight,
                   sorterVars, components, controls, headers, download, elements,
                   timers>>

\* the body the host renders with a table
LifeBody == <<TableRow(1, "first"), TableRow(1, "second")>>

\* the host adds a leaderboard table to the document in place of the one it
\* shows, with a body or without: the table element alone (kind "table") or
\* a section that holds it and replaces the elements next to the old table
\* (kind "section"). The observer of init schedules setupLeaderboard for a
\* node that holds a .table-leaderboard, and reinitializeAfterContentChange
\* for a node that is one or holds a .table-leaderboard tbody
TableAdded(kind, table) ==
    /\ dom' = [dom EXCEPT !.table = table]
    /\ tbody' = IF table = "full" THEN LifeBody ELSE <<>>
    /\ headers' = [generation |-> 1 - headers.generation, indicator |-> FALSE]
    /\ elements' = IF kind = "section" THEN NoElements
                   ELSE [elements EXCEPT !.indicators = 0, !.listeners = 0]
    /\ components' = [components EXCEPT
                         !.table = IF @ = "live" THEN "detached" ELSE @,
                         !.attached = FALSE]
    /\ timers' = timers \cup
                   (IF kind = "table" THEN {"reinitialize"}
                    ELSE IF table = "full" THEN {"setup", "reinitialize"}
                    ELSE {"setup"})
    /\ UNCHANGED <<totalPages, isLoadingAllPages, loadingAborted, allPagesData,
                   dataId, button, paginationHidden, alerts, run, inflight,
                   sorterVars, controls, download, stale>>

\* the host adds a .pagination element of n pages to a document without one;
\* the observer schedules the handler of pagination added later
PaginationAdded(n) ==
    /\ ~dom.pagination
    /\ dom' = HostPage([dom EXCEPT !.pagination = TRUE], n)
    /\ totalPages' = getTotalPages(HostPage([dom EXCEPT !.pagination = TRUE], n))
    /\ timers' = timers \cup {"pagination"}
    /\ UNCHANGED <<isLoadingAllPages, loadingAborted, allPagesData, dataId, tbody,
                   button, paginationHidden, alerts, run, inflight, sorterVars,
                   components, controls, headers, download, stale, elements>>

\* a scheduled handler that finds nothing to do
HandlerReturns(timer) ==
    /\ timers' = timers \ {timer}
    /\ UNCHANGED <<dom, totalPages, isLoadingAllPages, loadingAborted, allPagesData,
                   dataId, tbody, button, paginationHidden, alerts, run, inflight,
                   sorterVars, components, controls, headers, download, stale,
                   elements>>

\* the retry of init after a second: setupLeaderboard when this.table is null
RetryFires ==
    /\ "retry" \in timers
    /\ IF components.table = "none"
       THEN /\ SetupLeaderboard(dom, tbody, paginationHidden)
            /\ timers' = timers \ {"retry"}
            /\ UNCHANGED stale
       ELSE HandlerReturns("retry")

\* the setupLeaderboard scheduled for an added table
SetupFires ==
    /\ "setup" \in timers
    /\ SetupLeaderboard(dom, tbody, paginationHidden)
    /\ timers' = timers \ {"setup"}
    /\ UNCHANGED stale

\* the reinitializeAfterContentChange scheduled for changed content
ReinitializeFires ==
    /\ "reinitialize" \in timers
    /\ SetupLeaderboard(dom, tbody, paginationHidden)
    /\ timers' = timers \ {"reinitialize"}
    /\ UNCHANGED stale

\* the handler of pagination added later: a PageLoader is made when the
\* controller has a table and no PageLoader; its container goes before the
\* table, into the document when the table is in it
PaginationFires ==
    /\ "pagination" \in timers
    /\ IF components.table # "none" /\ ~components.pageLoader
       THEN /\ timers' = timers \ {"pagination"}
            /\ components' = [components EXCEPT !.pageLoader = TRUE]
            /\ elements' = IF components.table = "live"
                           THEN addLoadAllPagesButton(elements, dom)
                           ELSE removeAllExistingButtons(elements)
            /\ controls' = [controls EXCEPT !.container = TRUE,
                                            !.csvExportButton = TRUE]
            /\ button' = [exists |-> dom.pagination /\ getTotalPages(dom) > 1,
                          disabled |-> FALSE, loading |-> FALSE]
            /\ isLoadingAllPages' = FALSE
            /\ loadingAborted' = FALSE
            /\ allPagesData' = <<>>
            /\ UNCHANGED <<dom, totalPages, dataId, tbody, paginationHidden, alerts,
                           run, inflight, sorterVars, headers, download, stale>>
       ELSE HandlerReturns("pagination")

\* click on the CSV button (exportToCSVDirectly, exportToCSV): the records of
\* the aggregation when there are any, else those of the rows of the table
\* body; without a record an alert is raised and no file is made
ExportToCSV ==
    /\ controls.csvExportButton
    /\ LET dataToExport == IF hasAllPagesData THEN allPagesData ELSE ParseRows(tbody)
       IN IF Len(dataToExport) = 0
          THEN /\ alerts < MaxCalls
               /\ alerts' = alerts + 1
               /\ UNCHANGED download
          ELSE /\ download' = Some(csvContent(getTableHeaders(dom.headerTexts, headers),
                                              dataToExport))
               /\ UNCHANGED alerts
    /\ UNCHANGED <<dom, totalPages, isLoadingAllPages, loadingAborted, allPagesData,
                   dataId, tbody, button, paginationHidden, run, inflight,
                   sorterVars, components, controls, headers, stale, elements,
                   timers>>

Next ==
    \/ \E r \in Runs : ClickLoadAllPages(r)
    \/ \E r \in Runs : CallLoadAllPages(r)
    \/ \E f \in inflight : \E resp \in Responses(f.req.page) : GetSettles(f, resp)
    \/ \E f \in inflight : \E resp \in Responses(f.req.page) : PostSettles(f, resp)
    \/ \E r \in Runs : DelayElapses(r)
    \/ \E r \in Runs : CancelClick(r)

Spec == Init /\ [][Next]_vars

SpecReq == InitReq /\ [][Next]_vars

\* loadAllPages, catch and finally: a statement of the try block throws when
\* the run resumes after its delay. The failure alert is raised, an empty
\* array is returned (result 0: not the accumulated list), the flags are
\* cleared and the button is restored; progressDiv is a constant of the try
\* block, neither catch nor finally removes it from the document
RunThrows(r) ==
    /\ PageDataAwaited(r)
    /\ alerts < MaxCalls
    /\ alerts' = alerts + 1
    /\ run' = [run EXCEPT ![r] = [Returned("failed", 0) EXCEPT
                                      !.progress = run[r].progress]]
    /\ isLoadingAllPages' = FALSE
    /\ loadingAborted' = FALSE
    /\ button' = ButtonRestored
    /\ UNCHANGED <<dom, totalPages, allPagesData, dataId, tbody, paginationHidden,
                   inflight>>
    /\ UNCHANGED <<sorterVars, pageVars>>

\* the PageLoader with the runs that end in the catch block
NextThrow ==
    \/ Next
    \/ \E r \in Runs : RunThrows(r)

SpecThrow == Init /\ [][NextThrow]_vars

\* every fetch settles, and a run that waits for its delay goes on
FairRuns ==
    /\ SpecThrow
    /\ WF_vars(\E f \in inflight : \E resp \in Responses(f.req.page) :
                   GetSettles(f, resp) \/ PostSettles(f, resp))
    /\ \A r \in Runs : WF_vars(DelayElapses(r) \/ RunThrows(r))

\* the controller set up on a club leaderboard of two pages
InitTable ==
    \E rows \in TableBodies :
        /\ dom = HostPage(DomClub, 2)
        /\ totalPages = getTotalPages(dom)
        /\ isLoadingAllPages = FALSE
        /\ loadingAborted = FALSE
        /\ allPagesData = <<>>
        /\ dataId = 0
        /\ originalData = ParseRows(rows)
        /\ currentSort = InitialSort
        /\ columnVisibility = AllVisible
        /\ headerClicks = NoClicks
        /\ builds = 0
        /\ tbody = renderTable(ParseRows(rows), AllVisible)
        /\ button = [exists |-> dom.pagination /\ getTotalPages(dom) > 1,
                     disabled |-> FALSE, loading |-> FALSE]
        /\ paginationHidden = FALSE
        /\ alerts = 0
        /\ run = [r \in Runs |-> IdleRun]
        /\ inflight = {}
        /\ components = AllComponents
        /\ controls = AllControls
        /\ headers = [HostHeaders EXCEPT !.indicator = TRUE]
        /\ download = None
        /\ stale = NoStale
        /\ elements = addLoadAllPagesButton(TableSorterConstructed(NoElements), dom)
        /\ timers = {}

\* the load-all button is clicked at most MaxTableLoads times on one build
\* of the table
MaxTableLoads == 1

\* the sorting controller and the aggregator on one build of the table: any
\* header is clicked
NextSort ==
    \/ \E i \in 0..(Len(columns) - 1) : SortByColumn(i)
    \/ \E r \in 1..MaxTableLoads : ClickLoadAllPages(r)
    \/ \E f \in inflight : \E resp \in Responses(f.req.page) : GetSettles(f, resp)
    \/ \E f \in inflight : \E resp \in Responses(f.req.page) : PostSettles(f, resp)
    \/ \E r \in Runs : DelayElapses(r)
    \/ \E r \in Runs : CancelClick(r)

SpecSort == InitTable /\ [][NextSort]_vars

\* the header and the checkbox the user works with next to the bulk buttons
ClickedHeaders == {0}
ChangedCheckboxes == {"Time"}

\* the visibility controller, the sorting controller and the aggregator
NextTable ==
    \/ \E i \in ClickedHeaders : SortByColumn(i)
    \/ \E name \in ChangedCheckboxes, checked \in BOOLEAN : CheckboxChange(name, checked)
    \/ SelectAll
    \/ SelectNone
    \/ \E rows \in TableBodies : ContentChanged(rows)
    \/ \E r \in 1..MaxTableLoads : ClickLoadAllPages(r)
    \/ \E f \in inflight : \E resp \in Responses(f.req.page) : GetSettles(f, resp)
    \/ \E f \in inflight : \E resp \in Responses(f.req.page) : PostSettles(f, resp)
    \/ \E r \in Runs : DelayElapses(r)
    \/ \E r \in Runs : CancelClick(r)

SpecTable == InitTable /\ [][NextTable]_vars

\* the controller set up on leaderboard d whose table body holds rows
SetUpOn(d, rows) ==
    /\ dom = d
    /\ totalPages = getTotalPages(d)
    /\ isLoadingAllPages = FALSE
    /\ loadingAborted = FALSE
    /\ allPagesData = <<>>
    /\ dataId = 0
    /\ originalData = ParseRows(rows)
    /\ currentSort = InitialSort
    /\ columnVisibility = AllVisible
    /\ headerClicks = NoClicks
    /\ builds = 0
    /\ tbody = renderTable(ParseRows(rows), AllVisible)
    /\ button = [exists |-> d.pagination /\ getTotalPages(d) > 1,
                 disabled |-> FALSE, loading |-> FALSE]
    /\ paginationHidden = FALSE
    /\ alerts = 0
    /\ run = [r \in Runs |-> IdleRun]
    /\ inflight = {}
    /\ components = AllComponents
    /\ controls = AllControls
    /\ headers = [HostHeaders EXCEPT !.indicator = TRUE]
    /\ download = None
    /\ stale = NoStale
    /\ elements = addLoadAllPagesButton(TableSorterConstructed(NoElements), d)
    /\ timers = {}

\* the controller set up on a club leaderboard of a single page
InitSingle == \E rows \in TableBodies : SetUpOn(HostPage(DomClub, 1), rows)

\* a single-page leaderboard: headers are clicked and loadAllPages is called
NextSingle ==
    \/ \E i \in 0..(Len(columns) - 1) : SortByColumn(i)
    \/ \E r \in Runs : CallLoadAllPages(r)

SpecSingle == InitSingle /\ [][NextSingle]_vars

\* longest table body the parser is given
MaxRows == 3

\* the rows a leaderboard page can hold
ParsedSources ==
    {"short", "full", "first", "second", "tenth", "norank", "three", "seventh",
     "metrics", "late"}

\* table bodies of 1..MaxRows of them
ParsedBodies ==
    UNION { [1..n -> { TableRow(1, src) : src \in ParsedSources }] : n \in 1..MaxRows }

\* a page whose content script has not been set up yet
InitParse == \E rows \in ParsedBodies : InitUnset(HostPage(DomClub, 1), rows)

\* LeaderboardController.init: the first setupLeaderboard on the page
SetupOnLoad ==
    /\ builds = 0
    /\ SetupLeaderboard(dom, tbody, FALSE)
    /\ timers' = timers \cup {"retry"}
    /\ UNCHANGED stale

NextParse == SetupOnLoad

\* the records parsed of every table body
SpecParse == InitParse /\ [][NextParse]_vars

\* most page links of a pagination block
MaxLinks == 7

\* the orders a set of page numbers can stand in
RECURSIVE Orders(_)
Orders(S) ==
    IF S = {} THEN { <<>> }
    ELSE UNION { { <<x>> \o rest : rest \in Orders(S \ {x}) } : x \in S }

\* numbers a pagination block can hold next to its page numbers: a count of
\* athletes, a year
Distractors == {1000, 2024}

\* the club leaderboard with a .pagination block whose page= links are
\* links and whose text holds the numbers text
PagedHost(links, text) ==
    [DomClub EXCEPT !.pagers =
                       [i \in 1..Len(paginationSelectors) |->
                           IF i = 1
                           THEN Some([el    |-> paginationSelectors[i],
                                      links |-> links,
                                      text  |-> text])
                           ELSE None],
                    !.docPageLinks = links]

\* the pagination blocks: links to the pages 1..n in any order, the texts of
\* the links, and at most one distractor as a link and one in the text
PagedHosts ==
    { PagedHost(order \o far, order \o far \o note) :
        order \in UNION { Orders(1..n) : n \in 1..MaxLinks },
        far   \in { <<>> } \cup { <<x>> : x \in Distractors },
        note  \in { <<>> } \cup { <<x>> : x \in Distractors } }

\* a page with one of the pagination blocks, before the controller is set up
InitPages == \E d \in PagedHosts : InitUnset(d, InitialBody)

\* the page counts of the pagination blocks
SpecPages == InitPages /\ [][NextParse]_vars

\* the rows of the leaderboards that are exported
CsvSources == {"short", "full", "metrics", "comma", "quote", "lines"}

\* most rows of an exported table body
MaxCsvRows == 2

\* table bodies of at most MaxCsvRows of them
CsvBodies ==
    UNION { [1..n -> { TableRow(1, src) : src \in CsvSources }] : n \in 0..MaxCsvRows }

\* the header texts of the leaderboards: the plain ones, and a row of
\* headers one of which holds a comma and one of which is empty
HeaderVariants ==
    { HeaderTexts,
      << <<"R", "a", "n", "k">>, <<"N", "a", "m", "e">>,
         <<"D", "a", "t", "e", ",", " ", "d", "a", "y">>, <<"T", "i", "m", "e">>,
         <<>> >> }

InitCsv ==
    \E rows \in CsvBodies, texts \in HeaderVariants :
        InitUnset([HostPage(DomClub, 1) EXCEPT !.headerTexts = texts], rows)

\* loadAllPages called on the PageLoader the controller holds
CallOnPageLoader(r) ==
    /\ components.pageLoader
    /\ CallLoadAllPages(r)

NextCsv ==
    \/ SetupOnLoad
    \/ ExportToCSV
    \/ \E r \in Runs : CallOnPageLoader(r)

\* the CSV export of a single-page leaderboard
SpecCsv == InitCsv /\ [][NextCsv]_vars

\* the pages the content script is started on: with and without a
\* .pagination element, of one page and of two, and with a leaderboard
\* table, with a table that has no body, and without a table
SetupHosts ==
    { [HostPage(d, n) EXCEPT !.table = table] :
        d \in {DomClub, DomNoPagination}, n \in 1..2,
        table \in {"absent", "bodiless", "full"} }

InitSetup ==
    \E d \in SetupHosts, rows \in CsvBodies :
        /\ (d.table # "full" => rows = <<>>)
        /\ InitUnset(d, rows)

NextSetup ==
    \/ SetupOnLoad
    \/ ExportToCSV

\* the set-up of the content script on every kind of page
SpecSetup == InitSetup /\ [][NextSetup]_vars

\* the queries of the first leaderboard link of a pagination block
LinkQueries ==
    { << <<"page", "2">>, <<"filter", "overall">> >>,
      << <<"page", "2">>, <<"filter", "my_results">>, <<"per_page", "25">> >>,
      << <<"page", "2">>, <<"club_id", "7">>, <<"per_page", "25">> >>,
      << <<"page", "2">>, <<"filter", "overall">>, <<"date_range", "this_year">> >> }

\* the queries of the location the leaderboard is shown at
LocationQueries ==
    { <<>>,
      << <<"club_id", "7">> >>,
      << <<"filter", "overall">>, <<"per_page", "50">> >>,
      << <<"filter", "following">>, <<"club_id", "7">>, <<"per_page", "50">> >>,
      << <<"per_page", "50">>, <<"date_range", "last_year">> >> }

\* club leaderboards of two pages whose pagination link and location carry
\* them
FilterHosts ==
    { HostPage(MkDom(<<"clubs", "7", "leaderboard">>, current, TRUE, <<link>>,
                     <<>>, None, Null, "tok"), 2) :
        link \in LinkQueries, current \in LocationQueries }

InitFilter == \E d \in FilterHosts : InitFor(d, InitialBody)

\* the requests built on pages whose link and location agree and disagree
SpecFilter == InitFilter /\ [][Next]_vars

\* rows by their rank cell: a number, a number and an avatar, an avatar, no
\* text, zero, a negative number and a text that is no number
RankSources == {"second", "seventh", "first", "norank", "zeroth", "minus", "dash"}

RankBodies ==
    UNION { [1..n -> { TableRow(1, src) : src \in RankSources }] : n \in 1..MaxRows }

InitRank == \E rows \in RankBodies : InitUnset(HostPage(DomClub, 1), rows)

\* the ranks parsed of every table body
SpecRank == InitRank /\ [][NextParse]_vars

\* rows of seven and more cells by what the cell at index 6 and the cells
\* before it hold: a climbing speed with its unit, a bare number, a bare
\* number after a climbing speed of 0 with its unit, a date, a distance, a
\* number that is too small, a duration in hours, a clock time and a power
ClimbSources ==
    {"climb", "bare", "flat", "dated", "far", "slow", "hours", "metrics", "late",
     "full"}

ClimbBodies ==
    UNION { [1..n -> { TableRow(1, src) : src \in ClimbSources }] : n \in 1..MaxCsvRows }

InitClimb == \E rows \in ClimbBodies : InitUnset(HostPage(DomClub, 1), rows)

\* the climbing speeds parsed of every table body
SpecClimb == InitClimb /\ [][NextParse]_vars

\* the controller set up on a club leaderboard of three pages
InitCancel ==
    SetUpOn(HostPage(DomClub, 3), <<TableRow(1, "first"), TableRow(1, "second")>>)

\* the aggregator, its cancel button, a header and the CSV button
NextCancel ==
    \/ \E i \in ClickedHeaders : SortByColumn(i)
    \/ ExportToCSV
    \/ \E r \in 1..MaxTableLoads : ClickLoadAllPages(r)
    \/ \E f \in inflight : \E resp \in Responses(f.req.page) : GetSettles(f, resp)
    \/ \E f \in inflight : \E resp \in Responses(f.req.page) : PostSettles(f, resp)
    \/ \E r \in Runs : DelayElapses(r)
    \/ \E r \in Runs : CancelClick(r)

\* header clicks and exports before, during and after a run that is cancelled
SpecCancel == InitCancel /\ [][NextCancel]_vars

\* the aggregator of a leaderboard of three pages, and the rebuild of the
\* components during its run
NextRebuild ==
    \/ \E r \in 1..MaxTableLoads : ClickLoadAllPages(r)
    \/ \E f \in inflight : \E resp \in Responses(f.req.page) : GetSettles(f, resp)
    \/ \E f \in inflight : \E resp \in Responses(f.req.page) : PostSettles(f, resp)
    \/ \E r \in Runs : DelayElapses(r)
    \/ \E r \in Runs : CancelClick(r)
    \/ \E rows \in TableBodies, kept \in BOOLEAN : ContentChangedDuringRun(rows, kept)
    \/ \E resp \in Responses(stale.page) : StaleGetSettles(resp)
    \/ \E resp \in Responses(stale.page) : StalePostSettles(resp)
    \/ StaleDelayElapses
    \/ StaleCancelClick

SpecRebuild == InitCancel /\ [][NextRebuild]_vars

\* the pages the content script is started on: with a .pagination element
\* of two pages and without one, and with a leaderboard table, with a table
\* that has no body, and without a table
LifeHosts ==
    { [(IF d.pagination THEN HostPage(d, FirstPage) ELSE d) EXCEPT !.table = table] :
        d \in {DomClub, DomNoPagination}, table \in {"absent", "bodiless", "full"} }

InitLife ==
    \E d \in LifeHosts :
        InitUnset(d, IF d.table = "full" THEN LifeBody ELSE <<>>)

\* LeaderboardController.init, once
InitOnLoad ==
    /\ ~components.setupRan
    /\ SetupOnLoad

\* the lifecycle of the controller: init, the mutations of the host and the
\* handlers the observer and init schedule
NextLife ==
    \/ InitOnLoad
    \/ \E kind \in {"table", "section"}, table \in {"bodiless", "full"} :
          components.setupRan /\ TableAdded(kind, table)
    \/ \E n \in 1..FirstPage : components.setupRan /\ PaginationAdded(n)
    \/ RetryFires
    \/ SetupFires
    \/ ReinitializeFires
    \/ PaginationFires

SpecLife == InitLife /\ [][NextLife]_vars

\* the lifecycle with its scheduling: init runs, and a handler the observer
\* or init has scheduled with setTimeout runs; nothing obliges the host to
\* change the document
FairLife ==
    /\ SpecLife
    /\ WF_vars(InitOnLoad)
    /\ WF_vars(RetryFires)
    /\ WF_vars(SetupFires)
    /\ WF_vars(ReinitializeFires)
    /\ WF_vars(PaginationFires)

TypeOK ==
    /\ isLoadingAllPages \in BOOLEAN
    /\ loadingAborted \in BOOLEAN
    /\ totalPages \in 1..MaxPages
    /\ \A r \in Runs : run[r].pc \in {"idle", "fetching", "delay", "returned"}

\* ------------------------------------------------------------------ claims
Gets(r)  == {f \in Requests(r, inflight) : f.req.method = "GET"}
Posts(r) == {f \in Requests(r, inflight) : f.req.method = "POST"}

\* C1: at most one aggregation run (an invocation past the in-progress check
\* that has not returned) is active at any time.
C1_AtMostOneRun == Cardinality({r \in Runs : Active(r)}) <= 1

\* C2: a run whose cancel control was clicked returns without replacing the
\* table body: when it returns the table holds the rows it held when the run
\* started.
C2_CancelLeavesTable ==
    [][\A r \in Runs :
          (run[r].cancelled /\ Active(r) /\ run'[r].pc = "returned")
              => tbody' = run[r].tableAtStart]_vars

\* C3: when both the GET and the POST request of a page have failed the run
\* is aborted: it is no longer active, a failure alert was raised and the
\* table body is the one the run started with.
BothFailed(r) == run[r].failed = "both"

C3_BothFailAborts ==
    \A r \in Runs :
        BothFailed(r) =>
            /\ ~Active(r)
            /\ alerts > 0
            /\ tbody = run[r].tableAtStart

\* C4: once a call has returned (completed, cancelled, failed or single-page)
\* and no run is active, the in-progress flag is clear.
C4_FlagClearAfterReturn ==
    ( /\ \E r \in Runs : /\ run[r].pc = "returned"
                         /\ run[r].outcome \in {"completed", "cancelled",
                                                "failed", "single"}
      /\ \A r \in Runs : ~Active(r) )
        => ~isLoadingAllPages

\* C5: once its cancel control was clicked a run moves on to no further page:
\* it stays on the page it is fetching until it returns.
C5_NoPageAfterCancel ==
    [][\A r \in Runs :
          (run[r].cancelled /\ Active(r))
              => (run'[r].pc = "returned" \/ run'[r].page = run[r].page)]_vars

\* C6: a loadAllPages call made while a run is in progress is a no-op: it
\* returns the current accumulation, issues no request and changes neither
\* the accumulated list, the flags nor the table.
C6_CallDuringRunIsNoop ==
    [][\A r \in Runs :
          (run[r].pc = "idle" /\ run'[r].pc # "idle" /\ \E q \in Runs : Active(q))
              => /\ run'[r].pc = "returned"
                 /\ run'[r].outcome = "noop"
                 /\ run'[r].result = dataId
                 /\ UNCHANGED <<allPagesData, dataId, isLoadingAllPages,
                                loadingAborted, tbody, inflight>>]_vars

\* C7: within one run the current page is parsed first and the pages are then
\* requested in the order 2, 3, ..., N, one request outstanding at a time: a
\* page is requested only when every page before it has been processed.
C7_SequentialPages ==
    \A r \in Runs :
        Active(r) =>
            LET started == run[r].started
                done    == run[r].done
                reqs    == Requests(r, inflight)
            IN /\ Len(started) >= 2
               /\ Len(started) <= run[r].totalPages
               /\ \A i \in 1..Len(started) : started[i] = i
               /\ Len(done) <= Len(started)
               /\ \A i \in 1..Len(done) : done[i] = i
               /\ Cardinality(reqs) <= 1
               /\ Cardinality(reqs) = Len(started) - Len(done)
               /\ \A f \in reqs : f.req.page = started[Len(started)]

C7_Witness ==
    \E r \in Runs :
        /\ run[r].started = <<1, 2, 3>>
        /\ run[r].done = <<1, 2>>
        /\ \E f \in inflight : f.run = r /\ f.req.page = 3

\* C8: for every page the GET request is issued first, and a POST request
\* for the page is issued if and only if its GET has settled with zero
\* parsed records (a failed GET included): a run has one request at a time; a
\* page's handling starts with its GET; when a GET settles, either records
\* were accumulated and no POST follows, or none was and the POST for the same
\* page is issued; and a POST is issued at no other moment.
C8_PostIffGetEmpty ==
    [][\A r \in Runs :
          /\ Cardinality(Requests(r, inflight')) <= 1
          /\ (Active(r) /\ run'[r].pc = "fetching" /\ run'[r].page # run[r].page)
                => /\ Posts(r)' = {}
                   /\ \E f \in Gets(r)' : f.req.page = run'[r].page
          /\ (run[r].pc = "idle" /\ run'[r].pc = "fetching")
                => /\ Posts(r)' = {}
                   /\ \E f \in Gets(r)' : f.req.page = run'[r].page
          /\ \A f \in Gets(r) :
                f \notin inflight' =>
                    IF Len(allPagesData') > Len(allPagesData)
                    THEN Requests(r, inflight') = {}
                    ELSE \E g \in Posts(r)' : g.req.page = f.req.page
          /\ \A g \in Posts(r)' :
                g \notin inflight =>
                    /\ \E f \in Gets(r) : f.req.page = g.req.page /\ f \notin inflight'
                    /\ allPagesData' = allPagesData]_vars

C8_Witness ==
    \E r \in Runs :
        /\ Posts(r) # {}
        /\ run[r].failed = "get"

\* the allow-list of the specification
AllowList ==
    {"club_id", "filter", "per_page", "partial",
     "date_range", "age_group", "weight_class"}

ParamNames(req) == {req.params[i][1] : i \in 1..Len(req.params)}

\* C9: every outbound page request carries, besides the page number and the
\* CSRF token, only parameters whose names are on the allow-list.
C9_OnlyAllowListed ==
    \A f \in inflight :
        ParamNames(f.req) \subseteq (AllowList \cup {"page", "authenticity_token"})

\* C10: every allow-listed parameter of the pagination link is carried, with
\* the link's value, by every request built for a page, GET or POST.
C10_LinkParamsCarried ==
    \A f \in inflight :
        (dom.pagination /\ dom.pageLinks # <<>>) =>
            \A i \in 1..Len(dom.pageLinks[1]) :
                dom.pageLinks[1][i][1] \in AllowList =>
                    \E j \in 1..Len(f.req.params) :
                        f.req.params[j] = dom.pageLinks[1][i]

\* number of entries of a parameter list under one name
Occurrences(params, k) == Cardinality({i \in 1..Len(params) : params[i][1] = k})

\* C11: the request built for page n carries the page parameter exactly once,
\* with value n; a POST carries the CSRF token as the authenticity_token field
\* and as the X-CSRF-Token header exactly when the csrf-token meta tag yields
\* a token.
C11_PageOnceAndCsrf ==
    \A f \in inflight :
        /\ Occurrences(f.req.params, "page") = 1
        /\ GetKey(f.req.params, "page") = PageStr(f.req.page)
        /\ f.req.method = "POST" =>
              /\ Truthy(dom.csrfToken) <=> HasKey(f.req.params, "authenticity_token")
              /\ Truthy(dom.csrfToken) <=> HasKey(f.req.headers, "X-CSRF-Token")
              /\ Truthy(dom.csrfToken) =>
                    /\ GetKey(f.req.params, "authenticity_token") = dom.csrfToken
                    /\ GetKey(f.req.headers, "X-CSRF-Token") = dom.csrfToken

\* the element the page count was derived from, if any
TotalPagesSource == ScanPagers(dom, 1, 1).el

\* display: none on element el (hideOriginalPagination reaches the first
\* .pagination element only)
PaginationElementHidden(el) ==
    /\ paginationHidden
    /\ dom.pagers[1] # None
    /\ Val(dom.pagers[1]).el = el

\* C15: once a multi-page run has completed, the element the page count was
\* derived from is hidden, whichever selector candidate found it.
C15_PaginationHidden ==
    (\E r \in Runs : run[r].pc = "returned" /\ run[r].outcome = "completed")
        => (TotalPagesSource # None => PaginationElementHidden(Val(TotalPagesSource)))

\* node n is a copy of node e: the same row content and styles, another node
IsCloneOf(n, e) ==
    /\ n.page = e.page
    /\ n.src = e.src
    /\ n.hidden = e.hidden
    /\ n # e

\* C14: when a multi-page run completes without cancellation the table body
\* is replaced by exactly one cloned row per accumulated record, in
\* accumulation order, and no record's own element is put into the table.
C14_MergeClonesRecords ==
    [][\A r \in Runs :
          (Active(r) /\ ~run[r].cancelled /\ run'[r].pc = "returned"
                     /\ run'[r].outcome = "completed")
              => /\ Len(tbody') = Len(allPagesData')
                 /\ \A i \in 1..Len(tbody') :
                       IsCloneOf(tbody'[i], allPagesData'[i].element)]_vars

C14_Witness ==
    /\ \E r \in Runs : run[r].pc = "returned" /\ run[r].outcome = "completed"
    /\ Len(tbody) >= 2
    /\ Len(tbody) = Len(allPagesData)
    /\ \E i \in 1..Len(tbody) : tbody[i].page = 2 /\ tbody[i].copy = 2
    /\ \E i \in 1..Len(tbody) : tbody[i].page = 1 /\ tbody[i].copy = 1

\* the columns that a row has a cell of and the controller knows by name
ColumnIndexesOf(row) ==
    { i \in 0..(Len(columns) - 1) : i < Len(CellsOf(row)) }

\* C12: after any sequence of column toggles, select-all/select-none actions,
\* sorts and completed aggregations, every body cell at column index i of the
\* live table is hidden exactly when the visibility of column i is false.
C12_VisibilityMaskHolds ==
    \A k \in 1..Len(tbody) :
        \A i \in ColumnIndexesOf(tbody[k]) :
            (i \in tbody[k].hidden) <=> ~columnVisibility[columns[i + 1]]

\* the rows are in the order of the sort state: no row compares higher than
\* a row after it, the values coerced as those of rows outside the live table
RowsInOrder(rows, sort) ==
    \A i, j \in 1..Len(rows) :
        i < j => CompareValues(getCellValue(rows[i], sort.column, <<>>),
                               getCellValue(rows[j], sort.column, <<>>),
                               sort.direction) <= 0

\* the step in which run r merges its records into the table
MergeStep(r) ==
    /\ Active(r)
    /\ run'[r].pc = "returned"
    /\ run'[r].outcome = "completed"

\* C13: when an aggregation started from the load-all button completes while
\* a sort column is selected, the new table body is in that sort order.
C13_MergedBodySorted ==
    [][\A r \in Runs :
          (MergeStep(r) /\ currentSort.column # Unsorted)
              => RowsInOrder(tbody', currentSort')]_vars

\* the values a and b, in this order, agree with the direction: a blank
\* value comes after any other, numbers and strings and dates ascend or
\* descend, values of two types follow the locale's order of their strings
InDirection(a, b, direction) ==
    IF b = BlankValue THEN TRUE
    ELSE IF a = BlankValue THEN FALSE
    ELSE LET before(x, y) ==
                 IF typeof(x) = typeof(y) THEN ValueLess(x, y)
                 ELSE localeCompare(StringOf(x), StringOf(y)) < 0
         IN IF direction = "asc" THEN ~before(b, a) ELSE ~before(a, b)

\* row n of the table is the clone of the element e of a record
RenderedFrom(n, e) ==
    /\ n.page = e.page
    /\ n.src = e.src
    /\ n.copy = e.copy + 1

\* the element of data that row n was rendered from
SourceOf(n, data) ==
    data[CHOOSE k \in 1..Len(data) : RenderedFrom(n, data[k].element)].element

\* the step is a click on a header
HeaderClickStep == headerClicks' # headerClicks /\ headerClicks'.column # Unsorted

\* C16: sortByColumn(i) toggles the direction when i is the sorted column and
\* otherwise selects column i ascending, so that an odd number of clicks in a
\* row on one column leaves it ascending and an even number descending; the
\* rows rendered by the click are the records the controller sorts, ordered
\* by the column's coerced values in that direction.
C16_SortByColumnToggles ==
    [][HeaderClickStep =>
          /\ currentSort'.column = headerClicks'.column
          /\ currentSort'.direction = (IF headerClicks'.odd THEN "asc" ELSE "desc")
          /\ IF currentSort.column = currentSort'.column
             THEN currentSort'.direction # currentSort.direction
             ELSE currentSort'.direction = "asc"
          /\ Len(tbody') = Len(dataToSort)
          /\ \A k \in 1..Len(dataToSort) :
                \E i \in 1..Len(tbody') : RenderedFrom(tbody'[i], dataToSort[k].element)
          /\ LET value == [i \in 1..Len(tbody') |->
                              getCellValue(SourceOf(tbody'[i], dataToSort),
                                           currentSort'.column, tbody)]
             IN \A i, j \in 1..Len(tbody') :
                   i < j => InDirection(value[i], value[j], currentSort'.direction)]_vars

\* a second click in a row on a column has reversed the rows of the table
C16_Witness ==
    /\ headerClicks.column # Unsorted
    /\ ~headerClicks.odd
    /\ currentSort.direction = "desc"
    /\ Len(tbody) = Len(originalData)
    /\ Len(tbody) >= 2
    /\ tbody[1].src = originalData[Len(originalData)].element.src
    /\ tbody[1].src # originalData[1].element.src

\* the cell of the row at the column has no content: no cell, or no avatar
\* and the text empty or the placeholder
BlankCell(row, columnIndex) ==
    \/ columnIndex + 1 > Len(CellsOf(row))
    \/ /\ ~CellsOf(row)[columnIndex + 1].avatar
       /\ CellsOf(row)[columnIndex + 1].text \in {<<>>, <<"-">>}

SortedValue(n) ==
    getCellValue(SourceOf(n, dataToSort), currentSort'.column, tbody)

CellText(row, columnIndex) == CellsOf(row)[columnIndex + 1].text

\* the text is a duration written MM:SS or H:MM:SS
IsDuration(text) == TimeMatch(text) # None

\* the seconds of a duration: minutes and seconds, or hours, minutes and
\* seconds
DurationSeconds(text) ==
    LET n == DigitRun(text, 1)
    IN IF Len(text) = n + 3
       THEN DecimalValue(SubSeq(text, 1, n)) * SecondsPerMinute
            + DecimalValue(SubSeq(text, n + 2, n + 3))
       ELSE DecimalValue(SubSeq(text, 1, n)) * SecondsPerHour
            + DecimalValue(SubSeq(text, n + 2, n + 3)) * SecondsPerMinute
            + DecimalValue(SubSeq(text, n + 5, n + 6))

\* every row has a cell at the column and its text is a duration
AllDurations(rows, columnIndex) ==
    \A i \in 1..Len(rows) :
        /\ columnIndex + 1 <= Len(CellsOf(rows[i]))
        /\ IsDuration(CellText(rows[i], columnIndex))

\* C18: sorting ascending by a column whose cells are durations written
\* H:MM:SS or MM:SS orders the rows by their total number of seconds.
C18_DurationsBySeconds ==
    [][(/\ HeaderClickStep
        /\ currentSort'.direction = "asc"
        /\ AllDurations(tbody', currentSort'.column))
          => \A i, j \in 1..Len(tbody') :
                i < j => DurationSeconds(CellText(tbody'[i], currentSort'.column))
                           <= DurationSeconds(CellText(tbody'[j], currentSort'.column))]_vars

\* the text is a date written YYYY年M月D日
IsDate(text) == text # <<>> /\ DateMatchAt(text, 1) # None /\ text[Len(text)] = Nichi

\* every row has a cell at the column and its text is a date
AllDates(rows, columnIndex) ==
    \A i \in 1..Len(rows) :
        /\ columnIndex + 1 <= Len(CellsOf(rows[i]))
        /\ IsDate(CellText(rows[i], columnIndex))

\* the date a is not after the date b
NotAfter(a, b) ==
    \/ a.year < b.year
    \/ a.year = b.year /\ a.month < b.month
    \/ a.year = b.year /\ a.month = b.month /\ a.day <= b.day

\* C19: sorting ascending by a column whose cells are dates written
\* YYYY年M月D日 orders the rows chronologically by year, month and day.
C19_DatesChronological ==
    [][(/\ HeaderClickStep
        /\ currentSort'.direction = "asc"
        /\ AllDates(tbody', currentSort'.column))
          => \A i, j \in 1..Len(tbody') :
                i < j => NotAfter(Val(DateMatchAt(CellText(tbody'[i], currentSort'.column), 1)),
                                  Val(DateMatchAt(CellText(tbody'[j], currentSort'.column), 1)))]_vars

\* the step in which the controller rebuilds its components
RebuildStep == builds' # builds

\* C20: whenever the page controller rebuilds its components the sort state
\* is (column -1, ascending), all columns are visible and the aggregator
\* holds no accumulated records; between rebuilds the sort state changes
\* only through sortByColumn.
C20_RebuildResets ==
    [][/\ RebuildStep =>
             /\ currentSort' = [column |-> -1, direction |-> "asc"]
             /\ \A name \in ColumnNames : columnVisibility'[name]
             /\ allPagesData' = <<>>
       /\ (~RebuildStep /\ currentSort' # currentSort) =>
             /\ HeaderClickStep
             /\ currentSort' = sortByColumn(currentSort, headerClicks'.column)]_vars

\* the controller has rebuilt its components after an aggregation had
\* completed on the page
C20_Witness ==
    /\ builds = 1
    /\ paginationHidden
    /\ currentSort = InitialSort
    /\ columnVisibility = AllVisible
    /\ allPagesData = <<>>
    /\ \A r \in Runs : run[r] = IdleRun

\* a step in which call r of loadAllPages returns on a leaderboard of at most
\* one page
SinglePageReturn(r) ==
    /\ totalPages <= 1
    /\ run[r].pc = "idle"
    /\ run'[r].pc = "returned"

\* C21: when totalPages() is at most 1, a call of loadAllPages issues no
\* request, leaves the table body and the pagination alone, and returns
\* exactly the records parsed from the rows the table body holds at the call.
C21_SinglePageShortCircuit ==
    [][\A r \in Runs :
          SinglePageReturn(r) =>
              /\ inflight' = inflight
              /\ tbody' = tbody
              /\ paginationHidden' = paginationHidden
              /\ allPagesData' = ParseRows(tbody)]_vars

\* a row parseTableRow makes a record of
HasRecord(row) == Len(CellsOf(row)) >= 3

\* C22: parseTableRow returns no record if and only if the row has fewer
\* than 3 cells, and parsing a table body yields exactly one record per row
\* of at least 3 cells, in row order, whatever rows were rejected before.
C22_OneRecordPerParsableRow ==
    [][SetupOnLoad =>
          /\ \A i \in 1..Len(tbody) :
                 (parseTableRow(tbody[i], i - 1) = None) <=> (Len(CellsOf(tbody[i])) < 3)
          /\ [k \in 1..Len(originalData') |-> originalData'[k].element]
                 = SelectSeq(tbody, HasRecord)
          /\ \A k \in 1..Len(originalData') :
                 tbody[originalData'[k].index + 1] = originalData'[k].element]_vars

\* a body was parsed in which a row of three cells follows a rejected row
C22_Witness ==
    /\ builds = 1
    /\ \E k \in 1..Len(originalData) :
           /\ originalData[k].index > k - 1
           /\ Len(CellsOf(originalData[k].element)) = 3

\* the text consists of digits
IsNumeral(text) == text # <<>> /\ DigitRun(text, 1) = Len(text)

\* C23: the rank of a record is the number of the rank text when the rank
\* cell has one, otherwise 1 when the cell holds an avatar-like marker,
\* otherwise the positional index plus 1; a rank cell with the number n and
\* an avatar yields n.
C23_RankPriority ==
    \A k \in 1..Len(originalData) :
        LET rec  == originalData[k]
            cell == CellsOf(rec.element)[1]
        IN (IsNumeral(TextOf(cell)) \/ TextOf(cell) = <<>>) =>
              LeaderboardRecord(rec.element, rec.index).rank =
                  IF IsNumeral(TextOf(cell)) THEN DecimalValue(TextOf(cell))
                  ELSE IF cell.avatar THEN 1
                  ELSE rec.index + 1

\* C24: the timeInSeconds of a record is the decomposition of its time text:
\* minutes*60 + seconds for MM:SS, hours*3600 + minutes*60 + seconds for
\* H:MM:SS, and 0 when the time is empty.
C24_TimeInSecondsDecomposes ==
    \A k \in 1..Len(originalData) :
        LET rec == LeaderboardRecord(originalData[k].element, originalData[k].index)
        IN (rec.time = <<>> \/ IsDuration(rec.time)) =>
              rec.timeInSeconds =
                  IF rec.time = <<>> THEN 0 ELSE DurationSeconds(rec.time)

\* the cell texts "1,234.5 km/h", "185 bpm" and "250W"
SpeedText == <<"1", ",", "2", "3", "4", ".", "5", " ", "k", "m", "/", "h">>
HeartRateText == <<"1", "8", "5", " ", "b", "p", "m">>
PowerText == <<"2", "5", "0", "W">>

\* a cell of the row holds the text
HasCell(row, text) == \E i \in 1..Len(CellsOf(row)) : TextOf(CellsOf(row)[i]) = text

\* C25: on a row of at least 3 cells, a cell "1,234.5 km/h" yields the speed
\* 1234.5, a cell "185 bpm" the heart rate 185 and a cell "250W" the power
\* 250, at whatever position the cell stands.
C25_MetricsOfCells ==
    \A k \in 1..Len(originalData) :
        LET row == originalData[k].element
            rec == LeaderboardRecord(row, originalData[k].index)
        IN /\ HasCell(row, SpeedText) =>
                rec.speed = NumberValue(1234, <<"5">>)
           /\ HasCell(row, HeartRateText) => rec.heartRate = NumberValue(185, <<>>)
           /\ HasCell(row, PowerText) => rec.power = NumberValue(250, <<>>)

\* the numbers of the pagination block of d: those of its page= links and
\* those of its text
NumbersOfBlock(d) ==
    LET pg == Val(d.pagers[1])
    IN { pg.links[i] : i \in 1..Len(pg.links) } \cup { pg.text[i] : i \in 1..Len(pg.text) }

Largest(S) == CHOOSE x \in S : \A y \in S : y <= x

\* C26: getTotalPages returns an integer of at least 1, the largest page
\* number of the pagination block, where a number of 1000 or more counts
\* neither as a link's page parameter nor in the text.
C26_LargestPageBelowLimit ==
    /\ totalPages \in Nat
    /\ totalPages >= 1
    /\ totalPages = Largest({1} \cup { x \in NumbersOfBlock(dom) : x < 1000 })

\* the records of a CSV text read as RFC 4180 has it: fields are separated
\* by commas and records by line feeds, a field that opens with a double
\* quote runs to its closing one, and a doubled double quote in it is one
RECURSIVE ReadCsv(_, _, _, _, _, _)
ReadCsv(chars, i, quoted, field, record, records) ==
    IF i > Len(chars) THEN Append(records, Append(record, field))
    ELSE IF quoted
    THEN IF chars[i] = DoubleQuote
         THEN IF i < Len(chars) /\ chars[i + 1] = DoubleQuote
              THEN ReadCsv(chars, i + 2, TRUE, Append(field, DoubleQuote), record, records)
              ELSE ReadCsv(chars, i + 1, FALSE, field, record, records)
         ELSE ReadCsv(chars, i + 1, TRUE, Append(field, chars[i]), record, records)
    ELSE IF chars[i] = DoubleQuote /\ field = <<>>
    THEN ReadCsv(chars, i + 1, TRUE, field, record, records)
    ELSE IF chars[i] = Comma
    THEN ReadCsv(chars, i + 1, FALSE, <<>>, Append(record, field), records)
    ELSE IF chars[i] = LineFeed
    THEN ReadCsv(chars, i + 1, FALSE, <<>>, <<>>, Append(records, Append(record, field)))
    ELSE ReadCsv(chars, i + 1, FALSE, Append(field, chars[i]), record, records)

\* C27: the CSV file of N records is a header line followed by one line per
\* record, and every field that holds a comma, a double quote or a line
\* feed is quoted with its double quotes doubled, header fields included:
\* read back, the file gives the header texts and the values of the records.
C27_CsvReadsBack ==
    [][download' # download =>
          LET data == IF hasAllPagesData THEN allPagesData ELSE ParseRows(tbody)
              read == ReadCsv(Val(download'), 1, FALSE, <<>>, <<>>, <<>>)
          IN /\ Len(read) = Len(data) + 1
             /\ read[1] = getTableHeaders(dom.headerTexts, headers)
             /\ \A k \in 1..Len(data) :
                    read[k + 1] = RecordValues(data[k].element, data[k].index)]_vars

\* C28: from the start of an aggregation run until it returns the aggregator
\* is the only writer of the table body: a click on a header during the run
\* leaves the rows of the table as they are, and so never renders the
\* records accumulated so far.
C28_RunIsOnlyWriter ==
    [][((\E r \in Runs : Active(r)) /\ HeaderClickStep) => tbody' = tbody]_vars

\* C29: no operation changes a part of the document other than the rows of
\* the table body, the display of cells, the sort indicator appended to a
\* header and the element inserted before the table: the th elements stay
\* the elements they are and the pagination element keeps its display.
C29_FrameOfTheDocument ==
    [][/\ headers'.generation = headers.generation
       /\ paginationHidden' = paginationHidden]_vars

\* C30: on a page without a leaderboard table, or whose table has no body,
\* setup makes no sorter and no aggregator, inserts no control and raises
\* no alert; on a page with a table and without a .pagination element it
\* offers the CSV control and no load-all control.
C30_SetupNeedsTable ==
    components.setupRan =>
        /\ dom.table # "full" =>
              /\ ~components.tableSorter
              /\ ~components.pageLoader
              /\ controls = NoControls
              /\ ~button.exists
              /\ alerts = 0
        /\ (dom.table = "full" /\ ~dom.pagination) =>
              /\ controls.csvExportButton
              /\ ~button.exists

\* setup has run on a page without a leaderboard table
C30_Witness ==
    /\ components.setupRan
    /\ dom.table = "absent"


\* the parameters extractFilterParamsFromPage returned when the requests of
\* the page were built
FilterParams == extractFilterParamsFromPage(dom)

\* both the link and the location carry a filter value, and the two differ
FiltersDisagree(link, current) ==
    /\ Truthy(GetKey(link, "filter"))
    /\ Truthy(GetKey(current, "filter"))
    /\ GetKey(link, "filter") # GetKey(current, "filter")

\* C31: when the pagination block has a leaderboard link, every allow-listed
\* parameter of the link is in the result of extractFilterParamsFromPage
\* with the link's value, and when link and location disagree on the filter
\* value, no parameter the location alone carries is in the result.
C31_PaginationWins ==
    (inflight # {} /\ dom.pagination /\ dom.pageLinks # <<>>) =>
        /\ FilterParams # None
        /\ \A i \in 1..Len(dom.pageLinks[1]) :
              dom.pageLinks[1][i][1] \in AllowList =>
                  GetKey(Val(FilterParams), dom.pageLinks[1][i][1])
                      = dom.pageLinks[1][i][2]
        /\ FiltersDisagree(dom.pageLinks[1], dom.urlQuery) =>
              \A k \in Keys(dom.urlQuery) :
                  ~HasKey(dom.pageLinks[1], k) => ~HasKey(Val(FilterParams), k)

\* C32: every record parseTableRow returns has an integer rank of at least
\* 1, whatever the text of its rank cell and whatever its positional index.
C32_RankAtLeastOne ==
    \A k \in 1..Len(originalData) :
        LET rec == LeaderboardRecord(originalData[k].element, originalData[k].index)
        IN rec.rank \in Nat \ {0}

\* a pattern with a unit matched in one of the cells scanned for the
\* climbing speed
ClimbUnitMatched(row) ==
    \E i \in (FirstScanned + 1)..(IF Len(CellsOf(row)) < ClimbScanLimit
                                  THEN Len(CellsOf(row)) ELSE ClimbScanLimit) :
        climbingSpeedMatch(TextOf(CellsOf(row)[i])) # None

\* the markers of a distance, of a date or a time, and the colon
FallbackMarkers == { <<"k", "m">>, <<Nen>>, <<Gatsu>>, <<Nichi>>, <<Ji>>, <<":">> }

\* C33: the unitless fallback applies only when no pattern with a unit
\* matched in a scanned cell; it reads the cell at index 6 only, and it
\* assigns the number of that cell only when the number lies in 100..5000
\* and the text holds no km, date, time or colon marker; else the climbing
\* speed stays 0.
C33_FallbackGuarded ==
    \A k \in 1..Len(originalData) :
        LET row   == originalData[k].element
            cells == CellsOf(row)
            vam   == averageClimbingSpeed(row)
            cell6 == TextOf(cells[ClimbCell + 1])
        IN IF ClimbUnitMatched(row)
           THEN \E i \in 1..Len(cells) :
                    climbingSpeedMatch(TextOf(cells[i])) = Some(vam)
           ELSE vam # NumberValue(0, <<>>) =>
                    /\ Len(cells) > ClimbCell
                    /\ ClimbNumber(cell6, 1) = Some(vam)
                    /\ vam.int >= LeastClimb
                    /\ vam.int < ClimbLimit \/ vam = NumberValue(ClimbLimit, <<>>)
                    /\ \A marker \in FallbackMarkers : ~Includes(cell6, marker)

\* a run has returned after its last page was merged
CompletedRun == \E r \in Runs : run[r].pc = "returned" /\ run[r].outcome = "completed"

\* a run has returned on the abort flag
CancelledRun == \E r \in Runs : run[r].pc = "returned" /\ run[r].outcome = "cancelled"

\* the step hands a CSV file to the browser
ExportStep == download' # download

\* C34: hasAllPagesData() is true only when a run has completed: after a
\* run has returned cancelled (and none has completed) it is false, a click
\* on a header renders the records of the current page and not the partly
\* accumulated list, and so does a CSV export.
C34_PartialListUnused ==
    [][(CancelledRun /\ ~CompletedRun) =>
          /\ ~hasAllPagesData
          /\ HeaderClickStep =>
                tbody' = renderTable(sortData(originalData, currentSort', tbody),
                                     columnVisibility)
          /\ ExportStep =>
                download' = Some(csvContent(getTableHeaders(dom.headerTexts, headers),
                                            ParseRows(tbody)))]_vars

\* a step of the run of the aggregator the controller has cleaned up
StaleRunStep == StaleActive /\ stale' # stale

\* C35: after the controller has cleaned up an aggregator whose run is in
\* flight, that run writes no row to the table of the document, does not
\* hide the pagination and issues no further page request.
C35_CleanedUpRunStops ==
    [][StaleRunStep =>
          /\ tbody' = tbody
          /\ paginationHidden' = paginationHidden
          /\ stale'.req \in {None, stale.req}]_vars

\* C36: in every reachable state the accumulated list holds the records of
\* each page at most once and in increasing page order, the current page
\* first.
C36_PagesOnceInOrder ==
    \A i, j \in 1..Len(allPagesData) :
        i < j =>
            /\ allPagesData[i].page <= allPagesData[j].page
            /\ allPagesData[i].page = allPagesData[j].page =>
                  allPagesData[i].index # allPagesData[j].index

\* the controller is at rest: init has run and no scheduled handler is pending
LifecycleAtRest == components.setupRan /\ timers = {}

\* C37: after any sequence of lifecycle events (initial setup, the delayed
\* retry, tables added and content changed by the host, pagination added
\* later) the document holds at most one button container, one load-all
\* button, one CSV button and one column control panel, and each header
\* carries at most one sort indicator and at most one click listener; once
\* the handlers have run on a table with a body, a header carries exactly
\* one indicator and one listener, so that a click is one sort step
C37_NoDuplicateControls ==
    /\ elements.container <= 1
    /\ elements.loadAllPagesButton <= 1
    /\ elements.csvExportButton <= 1
    /\ elements.columnControlPanel <= 1
    /\ elements.indicators <= 1
    /\ elements.listeners <= 1
    /\ (LifecycleAtRest /\ dom.table = "full") =>
           /\ elements.indicators = 1
           /\ elements.listeners = 1
           /\ elements.columnControlPanel = 1
           /\ elements.csvExportButton = 1

\* the components have been set up a second time on the same table, rendered
\* twice, and the document holds one of each control
C37_Witness ==
    /\ LifecycleAtRest
    /\ dom.table = "full"
    /\ Len(tbody) > 0
    /\ tbody[1].copy >= 2
    /\ elements.container = 1
    /\ elements.loadAllPagesButton = 1
    /\ elements.csvExportButton = 1
    /\ elements.columnControlPanel = 1
    /\ elements.indicators = 1
    /\ elements.listeners = 1

\* pagination of more than one page has been added to a document whose
\* table is set up, and its handler is scheduled
PaginationAddedLate ==
    /\ "pagination" \in timers
    /\ components.tableSorter
    /\ components.attached
    /\ dom.table = "full"
    /\ dom.pagination
    /\ getTotalPages(dom) > 1

\* C38: when pagination with more than one page is added after the table
\* has been set up, a load-all button eventually is in the document
C38_LoadAllEventually == PaginationAddedLate ~> (elements.loadAllPagesButton >= 1)

\* every multi-page run eventually returns
RunsReturn == \A r \in Runs : Active(r) ~> (run[r].pc = "returned")

\* C39: when a multi-page run returns (completed, cancelled or failed by an
\* exception) its progress overlay is no longer in the document and the
\* load-all button is enabled with its original label
C39_ReturnedRunRestored ==
    [][\A r \in Runs :
          (Active(r) /\ run'[r].pc = "returned") =>
              /\ ~run'[r].progress
              /\ button'.exists => (~button'.disabled /\ ~button'.loading)]_vars

\* the sort states of a TableSorter
SortStates ==
    {InitialSort} \cup
    { [column |-> c, direction |-> d] : c \in 0..(Len(columns) - 1), d \in Directions }

CountOf(list, x) == Cardinality({i \in 1..Len(list) : list[i] = x})

IsPermutationOf(sorted, data) ==
    /\ Len(sorted) = Len(data)
    /\ \A i \in 1..Len(data) : CountOf(sorted, data[i]) = CountOf(data, data[i])

\* the comparator of sortData returns 0 on records i and j of data
ComparedEqual(data, sort, i, j) ==
    CompareValues(getCellValue(data[i].element, sort.column, tbody),
                  getCellValue(data[j].element, sort.column, tbody),
                  sort.direction) = 0

KeepsOrderOfEqual(sorted, data, sort) ==
    \A i, j \in 1..Len(data) :
        (i < j /\ data[i] # data[j] /\ ComparedEqual(data, sort, i, j)) =>
            PositionIn(sorted, data[i], 1) < PositionIn(sorted, data[j], 1)

\* C40: under every sort state sortData returns a permutation of the list
\* the controller hands it; unsorted (column -1) it returns the list in its
\* order; records that compare equal keep their relative order; and a sort
\* step leaves the lists of the controller and of the aggregator as they were
C40_SortDataPermutes ==
    [][/\ \A sort \in SortStates :
             LET sorted == sortData(dataToSort, sort, tbody)
             IN /\ IsPermutationOf(sorted, dataToSort)
                /\ sort.column = Unsorted => sorted = dataToSort
                /\ sort.column # Unsorted =>
                       KeepsOrderOfEqual(sorted, dataToSort, sort)
       /\ currentSort' # currentSort =>
             /\ originalData' = originalData
             /\ allPagesData' = allPagesData]_vars

\* a descending sort of three or more records has changed their order, and
\* two different records of them compare equal
C40_Witness ==
    /\ currentSort.column # Unsorted
    /\ currentSort.direction = "desc"
    /\ Len(dataToSort) >= 3
    /\ sortData(dataToSort, currentSort, tbody) # dataToSort
    /\ \E i, j \in 1..Len(dataToSort) :
          /\ i < j
          /\ dataToSort[i] # dataToSort[j]
          /\ ComparedEqual(dataToSort, currentSort, i, j)

====
